---- MODULE Spec2Model ----
(***************************************************************************)
(* Star-activity aggregation worker: the Day Aggregator (DayService over   *)
(* DayStorage and the KV namespace GITHUB_STARS_CACHE), the Window         *)
(* Aggregators (WeekService, MonthService), the Enrichment Engine          *)
(* (RepositoryEnricher and processResponse), the Fan-Out Dispatcher client *)
(* (fetchEach), the Refresh Scheduler (shouldRefreshCache), the router of  *)
(* the worker's fetch handler and the popular-repositories worker          *)
(* (main/index.ts over REPO_CACHE).                                        *)
(*                                                                         *)
(* JavaScript values are modelled structurally:                            *)
(*   - a string is the sequence of its UTF-16 code units;                  *)
(*   - a value held in a JSON document is Str(s) or Num(n);                *)
(*   - an object is the sequence of its <<key, value>> entries in          *)
(*     property enumeration order;                                         *)
(*   - an optional number is Undefined, NaN or Number(n).                  *)
(***************************************************************************)
EXTENDS Integers, Sequences, FiniteSets, TLC

VARIABLES
    kv,         \* GITHUB_STARS_CACHE: cache key -> stored JSON text
    call,       \* the getDailyStars request in progress (DayController/DayService)
    last,       \* the previous completed getDailyStars request
    undisturbed, \* no entry expired or was deleted since `last` completed
    win,        \* the getLastWeekData / getLastMonthData call in progress
                \* (counting: the call is one of the occurrence-counting
                \* services; skipped: some date of the call failed; reversed:
                \* the aggregate the same days give when processed last to first)
    expected,   \* per repository, the sum of its scores (its number of
                \* occurrences, when counting) over the days fetched
    enr,        \* the enrichRepositories call in progress
    tasks,      \* its getRepositoryInfo promises, one per repository
    req,        \* the request in progress (fetch handler, router, processResponse)
    fe,         \* the fetchEach call in progress and the event stream it reads
    rf,         \* the Refresh Scheduler: the clock, the stored marker, the check in progress
    pop,        \* the popular-repositories request in progress (main/index.ts)
    repoCache,  \* REPO_CACHE: cache key -> stored JSON text
    gen,        \* concurrent fetchPopularRepositories calls: each caller's position,
                \* and per UTC day the regenerations stored at or after the cutoff
    calls,      \* concurrent getDailyStars calls of one date: each caller's position,
                \* and the upstream answer behind the last write
    llm         \* the callDeepseekAPI call in progress: its retry counter and
                \* delay, the errors of its attempts and the delays it waited

dayVars == <<kv, call, last, undisturbed>>
windowVars == <<win, expected>>
enrichVars == <<enr, tasks>>
vars == <<kv, call, last, undisturbed, win, expected, enr, tasks, req, fe, rf, pop,
          repoCache, gen, calls, llm>>

-----------------------------------------------------------------------------
(* Bounds of the model *)

\* most ranked entries in one upstream daily document
MaxRanked == 3
\* most ranked entries of a day whose map is enriched
MaxEnriched == 2
\* largest value of the limit query parameter
MaxLimit == 3
\* most enrich requests served in one behaviour
MaxRequests == 2
\* most items in one fetchEach batch
MaxItems == 2
\* the UTC days the clock runs through
MaxDay == 2
\* most ranked entries in one day document of the counting services
MaxCounted == 2
\* the callers that run concurrently
MaxCallers == 2
\* the dispatcher's concurrency ceiling (250 in its documentation), scaled to
\* the score maps of the model
ConcurrencyCeiling == 1

-----------------------------------------------------------------------------
(* JavaScript values *)

Str(s) == [t |-> "string", s |-> s, n |-> 0]
Num(n) == [t |-> "number", s |-> <<>>, n |-> n]

Undefined == [t |-> "undefined", n |-> 0]
NaN == [t |-> "NaN", n |-> 0]
Number(n) == [t |-> "number", n |-> n]

\* truthiness of an optional number: undefined, NaN and 0 are falsy
Truthy(v) == v.t = "number" /\ v.n # 0

Min(a, b) == IF a < b THEN a ELSE b
Max(a, b) == IF a > b THEN a ELSE b

\* String.prototype.toLowerCase on ASCII code units
toLowerCase(s) == [i \in 1..Len(s) |-> IF s[i] \in 65..90 THEN s[i] + 32 ELSE s[i]]

\* Array.prototype.slice(0, end)
Slice0(arr, end) ==
    LET n == Len(arr)
        e == IF end < 0 THEN Max(n + end, 0) ELSE Min(end, n)
    IN  SubSeq(arr, 1, e)

\* parseInt on a query-parameter string: the leading decimal digits, NaN if none
RECURSIVE DigitsValue(_, _, _)
DigitsValue(s, i, acc) ==
    IF i > Len(s) \/ s[i] \notin 48..57 THEN acc
    ELSE DigitsValue(s, i + 1, acc * 10 + (s[i] - 48))

parseInt(s) ==
    IF Len(s) = 0 \/ s[1] \notin 48..57 THEN NaN ELSE Number(DigitsValue(s, 1, 0))

-----------------------------------------------------------------------------
(* Objects as entry sequences *)

Keys(o) == [i \in 1..Len(o) |-> o[i][1]]
HasKey(o, k) == \E i \in 1..Len(o) : o[i][1] = k
Get(o, k) == o[CHOOSE i \in 1..Len(o) : o[i][1] = k][2]

\* o[k] = v: an existing property keeps its position, a new one is appended
ObjSet(o, k, v) ==
    IF HasKey(o, k)
    THEN [i \in 1..Len(o) |-> IF o[i][1] = k THEN <<k, v>> ELSE o[i]]
    ELSE Append(o, <<k, v>>)

\* the property names that are canonical array indices, "0", "1", ...
IndexKeys == <<"0", "1", "2", "3", "4", "5">>
IsIndexKey(k) == \E i \in 1..Len(IndexKeys) : IndexKeys[i] = k
IndexOfKey(k) == (CHOOSE i \in 1..Len(IndexKeys) : IndexKeys[i] = k) - 1

\* isNaN(Number(key)) for the property names of a daily document
IsNaNNumberKey(k) == ~IsIndexKey(k)

\* the entries whose key is (wantIndex) or is not (~wantIndex) an array index
RECURSIVE SelectEntries(_, _, _)
SelectEntries(o, i, wantIndex) ==
    IF i > Len(o) THEN <<>>
    ELSE (IF IsIndexKey(o[i][1]) = wantIndex THEN <<o[i]>> ELSE <<>>)
         \o SelectEntries(o, i + 1, wantIndex)

RECURSIVE InsertByIndex(_, _)
InsertByIndex(sorted, e) ==
    IF sorted = <<>> THEN <<e>>
    ELSE IF IndexOfKey(e[1]) < IndexOfKey(sorted[1][1]) THEN <<e>> \o sorted
    ELSE <<sorted[1]>> \o InsertByIndex(Tail(sorted), e)

RECURSIVE SortByIndex(_)
SortByIndex(arr) ==
    IF arr = <<>> THEN <<>>
    ELSE InsertByIndex(SortByIndex(SubSeq(arr, 1, Len(arr) - 1)), arr[Len(arr)])

\* property enumeration order of an object: integer keys ascending, then the
\* string keys in insertion order
OwnPropertyOrder(o) ==
    SortByIndex(SelectEntries(o, 1, TRUE)) \o SelectEntries(o, 1, FALSE)

RECURSIVE FromEntriesFrom(_, _, _)
FromEntriesFrom(entries, i, acc) ==
    IF i > Len(entries) THEN acc
    ELSE FromEntriesFrom(entries, i + 1, ObjSet(acc, entries[i][1], entries[i][2]))

\* Object.fromEntries for a document with index keys
ObjectFromEntries(entries) == OwnPropertyOrder(FromEntriesFrom(entries, 1, <<>>))

-----------------------------------------------------------------------------
(* Cache Store: the KV namespace.  A key absent from DOMAIN kv was never    *)
(* written, has expired or was deleted.                                     *)

JSONstringify(v) == [json |-> v]
JSONparse(text) == text.json

KvPut(store, key, text) == [k \in DOMAIN store \cup {key} |-> IF k = key THEN text ELSE store[k]]
KvDelete(store, key) == [k \in DOMAIN store \ {key} |-> store[k]]

-----------------------------------------------------------------------------
(* Upstream daily-activity source (external): a JSON document whose index   *)
(* keys hold repository identifiers in rank order, with or without the      *)
(* metadata keys date, total_repositories, timestamp.                       *)

Dates == {"2025-01-01"}

\* "AN/X" and "c0/x": in lower case the two names have the same simpleHash
RepoIds == {<<65, 78, 47, 88>>, <<99, 48, 47, 120>>}

RankedLists == UNION {[1..n -> RepoIds] : n \in 0..MaxRanked}

RankedEntries(r) == [i \in 1..Len(r) |-> <<IndexKeys[i], Str(r[i])>>]

\* date: "2025", total_repositories: 100, timestamp: "T"
Metadata ==
    << <<"date", Str(<<50, 48, 50, 53>>)>>,
       <<"total_repositories", Num(100)>>,
       <<"timestamp", Str(<<84>>)>> >>

\* the documents as sent: metadata absent, before or after the ranked entries
WireDocs ==
    {RankedEntries(r) : r \in RankedLists}
    \cup {RankedEntries(r) \o Metadata : r \in RankedLists}
    \cup {Metadata \o RankedEntries(r) : r \in RankedLists}

UpstreamResponses ==
    {[kind |-> "ok", body |-> d] : d \in WireDocs}
    \cup {[kind |-> "http_error", body |-> <<>>], [kind |-> "network_error", body |-> <<>>]}

\* response.json(): the parsed object enumerates in own-property order
responseJson(body) == OwnPropertyOrder(FromEntriesFrom(body, 1, <<>>))

-----------------------------------------------------------------------------
(* DayStorage *)

dayCacheKey(date) == <<"v4", date>>

\* getCachedData: the parsed value, or null (modelled as absent) on a miss or
\* when the read throws
getCachedDataHit(store, key, readThrows) == ~readThrows /\ key \in DOMAIN store
getCachedDataValue(store, key) == JSONparse(store[key])

\* mutant of cacheData: the write is dropped
cacheData_Dropped(store, key, data, writeThrows) == store

\* cacheData: the store after the write; a write that throws leaves it as it
\* was and the error is rethrown as "Failed to cache data"
cacheData(store, key, data, writeThrows) ==
    IF writeThrows THEN store ELSE KvPut(store, key, JSONstringify(data))

cacheDataThrows(writeThrows) == writeThrows

-----------------------------------------------------------------------------
(* DayService *)

\* fetchAndAggregateData: the parsed document, {} when the fetch fails
fetchAndAggregateData(resp) ==
    IF resp.kind = "ok" THEN responseJson(resp.body) ELSE <<>>

\* the comparator ([, a], [, b]) => b - a; NaN (a string operand) acts as +0
CompareValues(a, b) == IF a.t = "number" /\ b.t = "number" THEN b.n - a.n ELSE 0

RECURSIVE InsertByValue(_, _)
InsertByValue(sorted, e) ==
    IF sorted = <<>> THEN <<e>>
    ELSE IF CompareValues(e[2], sorted[1][2]) < 0 THEN <<e>> \o sorted
    ELSE <<sorted[1]>> \o InsertByValue(Tail(sorted), e)

RECURSIVE sortedEntries(_)
sortedEntries(entries) ==
    IF entries = <<>> THEN <<>>
    ELSE InsertByValue(sortedEntries(SubSeq(entries, 1, Len(entries) - 1)),
                       entries[Len(entries)])

\* mutant of repoEntries: the metadata keys are not filtered out
repoEntries_NoFilter(data, i) == SubSeq(data, i, Len(data))

\* Object.entries(data).filter(([key]) => !isNaN(Number(key)))
RECURSIVE repoEntries(_, _)
repoEntries(data, i) ==
    IF i > Len(data) THEN <<>>
    ELSE (IF ~IsNaNNumberKey(data[i][1]) THEN <<data[i]>> ELSE <<>>)
         \o repoEntries(data, i + 1)

\* limit ? repoEntries.slice(0, limit) : repoEntries
limitedEntries(entries, limit) ==
    IF Truthy(limit) THEN Slice0(entries, limit.n) ELSE entries

\* the forEach of formatResponse: result[repoName.toLowerCase()] = totalRepos - i
RECURSIVE invertNumbering(_, _, _, _)
invertNumbering(entries, i, totalRepos, result) ==
    IF i > Len(entries) THEN result
    ELSE invertNumbering(entries, i + 1, totalRepos,
            IF entries[i][2].t = "string"
            THEN ObjSet(result, toLowerCase(entries[i][2].s), totalRepos - (i - 1))
            ELSE result)

formatResponse(data, limit) ==
    LET limited == limitedEntries(repoEntries(data, 1), limit)
    IN  invertNumbering(limited, 1, Len(limited), <<>>)

\* mutant of final: only the first entry of the sorted document is kept
final_LimitedView(repoData) ==
    IF Len(repoData) = 0 THEN <<>>
    ELSE SubSeq(ObjectFromEntries(sortedEntries(repoData)), 1, 1)

\* getDailyStars, lines 27-41: what a call stores for the data it fetched
final(repoData) ==
    IF Len(repoData) = 0 THEN <<>> ELSE ObjectFromEntries(sortedEntries(repoData))

-----------------------------------------------------------------------------
(* DayController.handleRequest and DayService.getDailyStars, one request at *)
(* a time; every await is a step.                                           *)

\* the limit query parameter: absent or empty, or the digits of 0..MaxLimit
LimitParams == {<<>>} \cup {<<48 + k>> : k \in 0..MaxLimit}

Idle == [pc |-> "idle", date |-> "", limit |-> Undefined, data |-> <<>>,
         out |-> <<>>, fetched |-> FALSE, readFailed |-> FALSE, repoData |-> <<>>]

\* what getDailyStars(date) returns on a cold cache when upstream gives repoData
ColdUnlimited(repoData) ==
    IF Len(repoData) = 0 THEN <<>> ELSE formatResponse(final(repoData), Undefined)

NoLast == [status |-> 0, date |-> "", limit |-> Undefined, out |-> <<>>]

\* handleRequest up to the call of getDailyStars
handleRequest(date, limitParam) ==
    /\ call.pc = "idle"
    /\ call' = [Idle EXCEPT !.pc = "get", !.date = date,
                  !.limit = IF limitParam # <<>> THEN parseInt(limitParam) ELSE Undefined]
    /\ UNCHANGED <<kv, last, undisturbed>>

\* getDailyStars, lines 16-22: the cache lookup
getDailyStarsLookup(readThrows) ==
    /\ call.pc = "get"
    /\ LET key == dayCacheKey(call.date) IN
       IF getCachedDataHit(kv, key, readThrows)
       THEN LET cachedData == getCachedDataValue(kv, key) IN
            call' = [call EXCEPT !.pc = "returned", !.data = cachedData,
                                 !.out = formatResponse(cachedData, call.limit)]
       ELSE call' = [call EXCEPT !.pc = "fetch", !.readFailed = readThrows]
    /\ UNCHANGED <<kv, last, undisturbed>>

\* getDailyStars, line 25: the upstream request
getDailyStarsFetch(resp) ==
    /\ call.pc = "fetch"
    /\ call' = [call EXCEPT !.pc = "store", !.data = fetchAndAggregateData(resp),
                            !.repoData = fetchAndAggregateData(resp),
                            !.fetched = TRUE]
    /\ UNCHANGED <<kv, last, undisturbed>>

\* getDailyStars, lines 28-47: cache the document, format the result
getDailyStarsStore(writeThrows) ==
    /\ call.pc = "store"
    /\ LET key == dayCacheKey(call.date)
           repoData == call.data
       IN  /\ kv' = cacheData(kv, key, final(repoData), writeThrows)
           /\ call' = IF cacheDataThrows(writeThrows)
                      THEN [call EXCEPT !.pc = "thrown"]
                      ELSE [call EXCEPT !.pc = "returned", !.data = final(repoData),
                              !.out = IF Len(repoData) = 0 THEN <<>>
                                      ELSE formatResponse(final(repoData), call.limit)]
    /\ UNCHANGED <<last, undisturbed>>

\* handleRequest, lines 42-49: the response, 200 with the data or 500
handleRequestRespond ==
    /\ call.pc \in {"returned", "thrown"}
    /\ last' = [status |-> IF call.pc = "returned" THEN 200 ELSE 500,
                date |-> call.date, limit |-> call.limit, out |-> call.out]
    /\ undisturbed' = TRUE
    /\ call' = Idle
    /\ UNCHANGED kv

\* the store drops an entry: its TTL has run out or it was evicted.  The
\* response follows the return of getDailyStars without an await, so nothing
\* happens in between.
KvExpire(key) ==
    /\ call.pc \notin {"returned", "thrown"}
    /\ key \in DOMAIN kv
    /\ kv' = KvDelete(kv, key)
    /\ undisturbed' = FALSE
    /\ UNCHANGED <<call, last>>

\* the variables the Daily Ranker leaves alone
dayRest == <<windowVars, enrichVars, req, fe, rf, pop, repoCache, gen, llm, calls>>

DayNext ==
    \/ \E d \in Dates, p \in LimitParams : handleRequest(d, p) /\ UNCHANGED dayRest
    \/ \E readThrows \in BOOLEAN : getDailyStarsLookup(readThrows) /\ UNCHANGED dayRest
    \/ \E resp \in UpstreamResponses : getDailyStarsFetch(resp) /\ UNCHANGED dayRest
    \/ \E writeThrows \in BOOLEAN : getDailyStarsStore(writeThrows) /\ UNCHANGED dayRest
    \/ handleRequestRespond /\ UNCHANGED dayRest
    \/ \E d \in Dates : KvExpire(dayCacheKey(d)) /\ UNCHANGED dayRest

\* the Window Aggregator at rest
WindowIdle == [pc |-> "idle", kind |-> "", counting |-> FALSE, i |-> 0,
               aggregatedData |-> <<>>, result |-> <<>>, skipped |-> FALSE,
               reversed |-> <<>>, currentDate |-> 0, urls |-> <<>>,
               requested |-> <<>>, inFlight |-> 0]

\* the Enrichment Engine at rest
EnrichIdle == [pc |-> "idle", repoData |-> <<>>, timeframe |-> "", enrichedData |-> <<>>]

\* the worker's fetch handler at rest
RequestIdle == [pc |-> "idle", count |-> 0, method |-> "GET", path |-> <<>>, text |-> "",
                full |-> <<>>, data |-> <<>>, timeframe |-> "",
                limit |-> Undefined, includeErrors |-> FALSE, bypassCache |-> FALSE,
                enrichedData |-> <<>>, asked |-> {}, source |-> "", status |-> 0,
                out |-> <<>>]

\* no fetchEach call yet
FetchEachIdle == [pc |-> "idle", outcomes |-> <<>>, complete |-> FALSE, stream |-> <<>>,
                  buffer |-> <<>>, resultBuffer |-> <<>>, collectingResult |-> FALSE,
                  logs |-> <<>>, out |-> <<>>, received |-> <<>>]

\* a UTC instant: day number, hour, minute
Time(d, h, m) == [d |-> d, h |-> h, m |-> m]

\* the scheduler before any check: midnight of day 1, no marker stored
RefreshIdle == [pc |-> "idle", clock |-> Time(1, 0, 0), marker |-> <<>>,
                now |-> Time(1, 0, 0), seen |-> <<>>, result |-> FALSE]

\* the popular-repositories worker before any request
PopularIdle == [pc |-> "idle", limit |-> Undefined, envKey |-> FALSE, devKey |-> FALSE,
                repositories |-> <<>>, limitedRepos |-> <<>>, sourceFailed |-> FALSE,
                llmCalls |-> 0, status |-> 0, error |-> "", out |-> <<>>]

\* no fetchPopularRepositories call in progress, nothing regenerated
GenIdle == [pc |-> [p \in 1..MaxCallers |-> "idle"], forced |-> [d \in 1..MaxDay |-> 0]]

\* no upstream answer
NoResponse == [kind |-> "none", body |-> <<>>]

\* no getDailyStars call in progress, nothing written
CallsIdle ==
    [by |-> [p \in 1..MaxCallers |->
                [pc |-> "idle", resp |-> NoResponse, out |-> <<>>, seen |-> 0]],
     written |-> NoResponse, writes |-> 0]

retry == [maxRetries |-> 3, initialDelayMs |-> 1000, backoffFactor |-> 2]

\* no callDeepseekAPI call yet
LlmIdle == [pc |-> "idle", retries |-> 0, delay |-> retry.initialDelayMs,
            errors |-> <<>>, waited |-> <<>>, out |-> "", thrown |-> ""]

\* every component at rest: the state after construction
AtRest ==
    /\ kv = <<>> /\ call = Idle /\ last = NoLast /\ undisturbed = TRUE
    /\ win = WindowIdle /\ expected = <<>>
    /\ enr = EnrichIdle /\ tasks = <<>>
    /\ req = RequestIdle
    /\ fe = FetchEachIdle
    /\ rf = RefreshIdle
    /\ pop = PopularIdle /\ repoCache = <<>>
    /\ gen = GenIdle /\ calls = CallsIdle
    /\ llm = LlmIdle

SpecDay == AtRest /\ [][DayNext]_vars

-----------------------------------------------------------------------------
(* Claims about the Day Aggregator, checked under SpecDay *)

\* number T of index-key entries of a document, and the identifier at rank i
RankedCount(data) == Cardinality({j \in 1..Len(data) : IsIndexKey(data[j][1])})
RankedId(data, i) == Get(data, IndexKeys[i + 1]).s

\* the request has returned the map for its document, no limit given
ReturnedUnlimited == call.pc = "returned" /\ call.limit = Undefined

\* every key of the returned map is the lowercased identifier of a ranked entry
OnlyRankedKeys ==
    \A j \in 1..Len(call.out) :
        \E i \in 0..RankedCount(call.data) - 1 :
            call.out[j][1] = toLowerCase(RankedId(call.data, i))

IsLastOccurrence(data, i) ==
    \A j \in i + 1..RankedCount(data) - 1 :
        toLowerCase(RankedId(data, j)) # toLowerCase(RankedId(data, i))

C2_LimitIsTruncation ==
    (/\ call.pc = "returned"
     /\ call.limit.t = "number"
     /\ 0 < call.limit.n
     /\ call.limit.n < RankedCount(call.data))
    => call.out = SubSeq(formatResponse(call.data, Undefined), 1, call.limit.n)

\* C9 as stated, for getDailyStars: a cache read or write that fails never
\* makes the request fail.
C9_CacheFailureAbsorbed == call.pc # "thrown" /\ last.status # 500

\* the request repeats the previous one, which returned, with nothing expired
\* or deleted in between
RepeatsLast ==
    /\ call.pc = "returned"
    /\ last.status = 200
    /\ last.date = call.date
    /\ last.limit = call.limit
    /\ undisturbed

FetchedNothingUsable ==
    /\ call.pc \in {"returned", "thrown"}
    /\ call.fetched
    /\ repoEntries(call.data, 1) = <<>>

\* the call before this one answered the same date with the empty map, and no
\* entry has expired or been deleted since
AfterEmptyAnswer ==
    /\ call.pc \in {"returned", "thrown"}
    /\ last.status = 200 /\ last.date = call.date /\ last.out = <<>>
    /\ undisturbed

\* C11 as stated: when the upstream request for a date fails or brings no
\* usable entry, getDailyStars returns the empty map without raising and
\* leaves an entry without repositories under the key of the date; every
\* later call for the date returns the empty map without an upstream request
\* as long as that entry has not expired or been deleted.
C11_EmptyDayCachedAndServed ==
    /\ FetchedNothingUsable =>
          /\ call.pc = "returned" /\ call.out = <<>>
          /\ dayCacheKey(call.date) \in DOMAIN kv
          /\ repoEntries(getCachedDataValue(kv, dayCacheKey(call.date)), 1) = <<>>
    /\ AfterEmptyAnswer =>
          call.pc = "returned" /\ call.out = <<>> /\ ~call.fetched

-----------------------------------------------------------------------------
(* Populating the cache and reading it back: the requests of SpecDay on     *)
(* documents of at most MaxCounted ranked entries, with a record of the     *)
(* upstream answer behind the entry in the store and of the limit of the    *)
(* call that wrote it.                                                      *)

\* the record kept with a successful write of the call
Populated == [kind |-> "ok", body |-> call.repoData, limit |-> call.limit]

populateRest == <<windowVars, enrichVars, req, fe, rf, pop, repoCache, gen, llm>>

PopulateNext ==
    \/ \E d \in Dates, p \in {<<>>} \cup {<<48 + k>> : k \in 1..MaxCounted} :
          handleRequest(d, p) /\ UNCHANGED <<populateRest, calls>>
    \/ \E readThrows \in BOOLEAN :
          getDailyStarsLookup(readThrows) /\ UNCHANGED <<populateRest, calls>>
    \/ \E resp \in {r \in UpstreamResponses : Len(repoEntries(r.body, 1)) <= MaxCounted} :
          getDailyStarsFetch(resp) /\ UNCHANGED <<populateRest, calls>>
    \/ \E writeThrows \in BOOLEAN :
          /\ getDailyStarsStore(writeThrows)
          /\ calls' = IF writeThrows THEN calls ELSE [calls EXCEPT !.written = Populated]
          /\ UNCHANGED populateRest
    \/ handleRequestRespond /\ UNCHANGED <<populateRest, calls>>
    \/ \E d \in Dates : KvExpire(dayCacheKey(d)) /\ UNCHANGED <<populateRest, calls>>

SpecPopulate == AtRest /\ [][PopulateNext]_vars

\* the call, without a limit, is served from the entry in the store
ServedFromPopulated == ReturnedUnlimited /\ ~call.fetched

\* C31: what getDailyStars stores is the full day data, whatever the limit of
\* the call that populated the cache: the entry written by getDailyStars(D, K)
\* on a cold cache holds every ranked entry of the document, and a later
\* getDailyStars(D) served from it returns what getDailyStars(D) returns on
\* a cold cache for the same document.
C31_StoredDataIsUnlimited ==
    /\ (call.pc = "returned" /\ call.fetched) =>
          LET stored == getCachedDataValue(kv, dayCacheKey(call.date)) IN
          /\ RankedCount(stored) = RankedCount(call.repoData)
          /\ \A i \in 0..RankedCount(call.repoData) - 1 :
                RankedId(stored, i) = RankedId(call.repoData, i)
    /\ ServedFromPopulated => call.out = ColdUnlimited(calls.written.body)

\* a call with limit 1 populated the cache from a document of two
\* repositories; a later call, without limit, is served both
C31_Witness ==
    /\ ServedFromPopulated
    /\ calls.written # NoResponse
    /\ calls.written.limit = Number(1)
    /\ Len(call.out) = 2

-----------------------------------------------------------------------------
(* Concurrent getDailyStars calls of one date on a readable store: every    *)
(* caller runs the steps of getDailyStars, and the steps of different       *)
(* callers interleave at each await.                                        *)

\* getDailyStars, lines 16-22, for caller p: the call and its cache lookup
\* (seen: the number of writes the value read has behind it)
getDailyStarsLookupBy(p, date) ==
    /\ calls.by[p].pc \in {"idle", "returned", "thrown"}
    /\ LET key == dayCacheKey(date) IN
       IF getCachedDataHit(kv, key, FALSE)
       THEN calls' = [calls EXCEPT !.by[p] =
                        [pc |-> "returned", resp |-> NoResponse,
                         out |-> formatResponse(getCachedDataValue(kv, key), Undefined),
                         seen |-> calls.writes]]
       ELSE calls' = [calls EXCEPT !.by[p] =
                        [pc |-> "fetch", resp |-> NoResponse, out |-> <<>>, seen |-> 0]]
    /\ UNCHANGED kv

\* getDailyStars, line 25, for caller p: the upstream request
getDailyStarsFetchBy(p, resp) ==
    /\ calls.by[p].pc = "fetch"
    /\ calls' = [calls EXCEPT !.by[p].pc = "store", !.by[p].resp = resp]
    /\ UNCHANGED kv

\* mutant of getDailyStarsStoreBy: an entry that exists is not overwritten
getDailyStarsStoreBy_FirstWriteWins(p, date, writeThrows) ==
    /\ calls.by[p].pc = "store"
    /\ LET key == dayCacheKey(date)
           repoData == fetchAndAggregateData(calls.by[p].resp)
       IN  /\ kv' = IF key \in DOMAIN kv THEN kv
                    ELSE cacheData(kv, key, final(repoData), writeThrows)
           /\ calls' = IF cacheDataThrows(writeThrows)
                       THEN [calls EXCEPT !.by[p].pc = "thrown"]
                       ELSE [calls EXCEPT !.by[p].pc = "returned",
                               !.by[p].out = formatResponse(final(repoData), Undefined),
                               !.by[p].seen = calls.writes + 1,
                               !.written = calls.by[p].resp,
                               !.writes = @ + 1]

\* getDailyStars, lines 28-47, for caller p: the document is cached, whatever
\* the store holds by now, and the result is formatted
getDailyStarsStoreBy(p, date, writeThrows) ==
    /\ calls.by[p].pc = "store"
    /\ LET key == dayCacheKey(date)
           repoData == fetchAndAggregateData(calls.by[p].resp)
       IN  /\ kv' = cacheData(kv, key, final(repoData), writeThrows)
           /\ calls' = IF cacheDataThrows(writeThrows)
                       THEN [calls EXCEPT !.by[p].pc = "thrown"]
                       ELSE [calls EXCEPT !.by[p].pc = "returned",
                               !.by[p].out = formatResponse(final(repoData), Undefined),
                               !.by[p].seen = calls.writes + 1,
                               !.written = calls.by[p].resp,
                               !.writes = @ + 1]

\* the variables the concurrent calls leave alone
concurrentRest ==
    <<call, last, undisturbed, windowVars, enrichVars, req, fe, rf, pop, repoCache, gen, llm>>

ConcurrentDayNext ==
    \/ \E p \in 1..MaxCallers, d \in Dates :
          getDailyStarsLookupBy(p, d) /\ UNCHANGED concurrentRest
    \/ \E p \in 1..MaxCallers :
          \E resp \in {r \in UpstreamResponses : Len(r.body) <= MaxEnriched} :
             getDailyStarsFetchBy(p, resp) /\ UNCHANGED concurrentRest
    \/ \E p \in 1..MaxCallers, d \in Dates, writeThrows \in BOOLEAN :
          getDailyStarsStoreBy(p, d, writeThrows) /\ UNCHANGED concurrentRest

SpecConcurrentDay == AtRest /\ [][ConcurrentDayNext]_vars

\* C27: when several getDailyStars calls of one date start on a cold cache,
\* each of them may fetch and write, and the last write wins: the stored
\* value is always the value derived from what upstream answered for the
\* date to the caller whose write landed last, never a mixture, and a call
\* that reads the store after the last write returns the map a call on its
\* own would return for that upstream answer.
C27_LastWriteIsDerivedFromUpstream ==
    \A d \in Dates :
        LET key == dayCacheKey(d)
            derived == final(fetchAndAggregateData(calls.written))
        IN  /\ key \in DOMAIN kv =>
                  /\ calls.writes > 0
                  /\ getCachedDataValue(kv, key) = derived
            /\ \A p \in 1..MaxCallers :
                  (calls.by[p].pc = "returned" /\ calls.by[p].seen = calls.writes) =>
                      calls.by[p].out = formatResponse(derived, Undefined)

\* two callers have fetched different documents and both have written; a
\* caller that read afterwards was served the value of the second write
C27_Witness ==
    /\ calls.writes = 2
    /\ calls.written.kind = "ok"
    /\ \E p, q \in 1..MaxCallers :
          /\ calls.by[p].pc = "returned" /\ calls.by[p].resp = NoResponse
          /\ calls.by[p].seen = 2 /\ Len(calls.by[p].out) = 2
          /\ calls.by[q].pc = "returned" /\ calls.by[q].resp.kind = "ok"
          /\ calls.by[q].seen = 1 /\ calls.by[q].out # calls.by[p].out

-----------------------------------------------------------------------------
(* Window Aggregator: WeekService.getLastWeekData and                      *)
(* MonthService.getLastMonthData request the day endpoint once per date,   *)
(* one after the other, and add up the scores.                             *)

WeekDays == 7
MonthDays == 30

WindowDays(kind) == IF kind = "week" THEN WeekDays ELSE MonthDays

\* what the day endpoint answers without a limit: the map of getDailyStars
DayMaps == {formatResponse(responseJson(d), Undefined) : d \in WireDocs}

\* the outcomes of one fetch(url): a 200 with a map, a non-2xx status, a
\* network exception, a 200 whose body is not JSON
DayResponses ==
    {[kind |-> "ok", data |-> m] : m \in DayMaps}
    \cup {[kind |-> k, data |-> <<>>] : k \in {"http_error", "network_error", "bad_json"}}

\* the repositories a day map can name
RepoNames == {toLowerCase(r) : r \in RepoIds}

\* mutant of sortByScore: the totals are returned in insertion order
sortByScore_Unsorted(entries) == entries

\* mutant of addScores: each entry counts 1, whatever its score
RECURSIVE addScores_CountOccurrences(_, _, _)
addScores_CountOccurrences(aggregatedData, data, j) ==
    IF j > Len(data) THEN aggregatedData
    ELSE LET repo == data[j][1]
             old == IF HasKey(aggregatedData, repo) THEN Get(aggregatedData, repo) ELSE 0
         IN  addScores_CountOccurrences(ObjSet(aggregatedData, repo, old + 1), data, j + 1)

\* for (const [repo, score] of Object.entries(data))
\*     aggregatedData[repo] = (aggregatedData[repo] || 0) + numericScore
RECURSIVE addScores(_, _, _)
addScores(aggregatedData, data, j) ==
    IF j > Len(data) THEN aggregatedData
    ELSE LET repo == data[j][1]
             numericScore == data[j][2]
             old == IF HasKey(aggregatedData, repo) THEN Get(aggregatedData, repo) ELSE 0
         IN  addScores(ObjSet(aggregatedData, repo, old + numericScore), data, j + 1)

\* Object.entries(aggregatedData).sort(([, a], [, b]) => b - a): stable
RECURSIVE InsertByScore(_, _)
InsertByScore(sorted, e) ==
    IF sorted = <<>> THEN <<e>>
    ELSE IF sorted[1][2] - e[2] < 0 THEN <<e>> \o sorted
    ELSE <<sorted[1]>> \o InsertByScore(Tail(sorted), e)

RECURSIVE sortByScore(_)
sortByScore(entries) ==
    IF entries = <<>> THEN <<>>
    ELSE InsertByScore(sortByScore(SubSeq(entries, 1, Len(entries) - 1)),
                       entries[Len(entries)])

\* the score of a repository in a map, 0 when the map does not name it
ScoreIn(map, repo) == IF HasKey(map, repo) THEN Get(map, repo) ELSE 0

\* WeekController.handleLastWeek / MonthController.handleLastMonth: the call
getLastWindowData(kind) ==
    /\ win.pc = "idle"
    /\ win' = [WindowIdle EXCEPT !.pc = "loop", !.kind = kind]
    /\ expected' = [r \in RepoNames |-> 0]

\* mutant of windowFetchDay: a failed date ends the loop
windowFetchDay_AbortOnFailure(resp) ==
    /\ win.pc = "loop"
    /\ ~win.counting
    /\ win.i < WindowDays(win.kind)
    /\ IF resp.kind = "ok"
       THEN /\ win' = [win EXCEPT !.i = @ + 1,
                          !.aggregatedData = addScores(@, resp.data, 1)]
            /\ expected' = [r \in RepoNames |-> expected[r] + ScoreIn(resp.data, r)]
       ELSE /\ win' = [win EXCEPT !.pc = "done", !.skipped = TRUE,
                          !.result = sortByScore(win.aggregatedData)]
            /\ UNCHANGED expected

\* one turn of the for loop over urls: fetch the next date, skip it on any
\* failure, add its scores otherwise
windowFetchDay(resp) ==
    /\ win.pc = "loop"
    /\ ~win.counting
    /\ win.i < WindowDays(win.kind)
    /\ IF resp.kind = "ok"
       THEN /\ win' = [win EXCEPT !.i = @ + 1,
                          !.aggregatedData = addScores(@, resp.data, 1),
                          !.reversed = addScores(addScores(<<>>, resp.data, 1), @, 1)]
            /\ expected' = [r \in RepoNames |-> expected[r] + ScoreIn(resp.data, r)]
       ELSE /\ win' = [win EXCEPT !.i = @ + 1, !.skipped = TRUE]
            /\ UNCHANGED expected

\* starsRefactor WeekService / MonthService: the call of the services that
\* count occurrences
getLastWindowCounts(kind) ==
    /\ win.pc = "idle"
    /\ win' = [WindowIdle EXCEPT !.pc = "loop", !.kind = kind, !.counting = TRUE]
    /\ expected' = [r \in RepoNames |-> 0]

\* what the day endpoint of these services answers: the ranked document of
\* the day with its metadata, or a document that carries a number
CountedDocuments ==
    {responseJson(Metadata \o RankedEntries(r)) :
         r \in UNION {[1..n -> RepoIds] : n \in 0..MaxCounted}}
    \cup {Metadata \o << <<"stars", Num(1)>> >>}

\* the metadata keys the counting loop passes over
IsMetadataKey(key) == key \in {"date", "total_repositories", "timestamp"}

\* mutant of countOccurrences: the name is counted as written
RECURSIVE countOccurrences_CaseSensitive(_, _, _)
countOccurrences_CaseSensitive(aggregatedData, data, j) ==
    IF j > Len(data) THEN aggregatedData
    ELSE LET key == data[j][1]
             value == data[j][2]
             repo == value.s
             old == IF HasKey(aggregatedData, repo) THEN Get(aggregatedData, repo) ELSE 0
         IN  IF ~IsMetadataKey(key) /\ value.t = "string"
             THEN countOccurrences_CaseSensitive(ObjSet(aggregatedData, repo, old + 1),
                                                 data, j + 1)
             ELSE countOccurrences_CaseSensitive(aggregatedData, data, j + 1)

\* for (const [key, value] of Object.entries(data))
\*     if (key is not date, total_repositories, timestamp && typeof value === 'string')
\*         aggregatedData[value.toLowerCase()] = (aggregatedData[...] || 0) + 1
RECURSIVE countOccurrences(_, _, _)
countOccurrences(aggregatedData, data, j) ==
    IF j > Len(data) THEN aggregatedData
    ELSE LET key == data[j][1]
             value == data[j][2]
             repo == toLowerCase(value.s)
             old == IF HasKey(aggregatedData, repo) THEN Get(aggregatedData, repo) ELSE 0
         IN  IF ~IsMetadataKey(key) /\ value.t = "string"
             THEN countOccurrences(ObjSet(aggregatedData, repo, old + 1), data, j + 1)
             ELSE countOccurrences(aggregatedData, data, j + 1)

\* the string-valued entries of a day document, outside its metadata, that
\* name the repository
OccurrencesIn(data, r) ==
    Cardinality({j \in 1..Len(data) : /\ ~IsMetadataKey(data[j][1])
                                     /\ data[j][2].t = "string"
                                     /\ toLowerCase(data[j][2].s) = r})

\* one turn of the counting loop over urls: fetch the next date, skip it on
\* any failure, count its entries otherwise
windowCountDay(resp) ==
    /\ win.pc = "loop"
    /\ win.counting
    /\ win.i < WindowDays(win.kind)
    /\ IF resp.kind = "ok"
       THEN /\ win' = [win EXCEPT !.i = @ + 1,
                          !.aggregatedData = countOccurrences(@, resp.data, 1)]
            /\ expected' = [r \in RepoNames |-> expected[r] + OccurrencesIn(resp.data, r)]
       ELSE /\ win' = [win EXCEPT !.i = @ + 1, !.skipped = TRUE]
            /\ UNCHANGED expected

\* after the loop: sort by total, descending, and return
windowReturn ==
    /\ win.pc = "loop"
    /\ win.i = WindowDays(win.kind)
    /\ win' = [win EXCEPT !.pc = "done", !.result = sortByScore(win.aggregatedData)]
    /\ UNCHANGED expected

\* the controller answers and the worker is ready for the next request
windowRespond ==
    /\ win.pc = "done"
    /\ win' = WindowIdle
    /\ expected' = <<>>

\* the variables the Window Aggregator leaves alone
windowRest == <<dayVars, enrichVars, req, fe, rf, pop, repoCache, gen, llm, calls>>

WindowNext ==
    \/ \E kind \in {"week", "month"} : getLastWindowData(kind) /\ UNCHANGED windowRest
    \/ \E resp \in DayResponses : windowFetchDay(resp) /\ UNCHANGED windowRest
    \/ windowReturn /\ UNCHANGED windowRest
    \/ windowRespond /\ UNCHANGED windowRest

SpecWindow == AtRest /\ [][WindowNext]_vars

\* the occurrence-counting services of starsRefactor
WindowCountsNext ==
    \/ \E kind \in {"week", "month"} : getLastWindowCounts(kind) /\ UNCHANGED windowRest
    \/ \E resp \in {[kind |-> "ok", data |-> d] : d \in CountedDocuments}
                     \cup {r \in DayResponses : r.kind # "ok"} :
           windowCountDay(resp) /\ UNCHANGED windowRest
    \/ windowReturn /\ UNCHANGED windowRest
    \/ windowRespond /\ UNCHANGED windowRest

SpecWindowCounts == AtRest /\ [][WindowCountsNext]_vars

C12_FailedDateSkippedNotFatal ==
    /\ win.pc = "loop" =>
          /\ win.i \in 0..WindowDays(win.kind)
          /\ \A r \in RepoNames : ScoreIn(win.aggregatedData, r) = expected[r]
    /\ win.pc = "done" =>
          /\ win.i = WindowDays(win.kind)
          /\ win.result = sortByScore(win.aggregatedData)
          /\ \A r \in RepoNames : ScoreIn(win.aggregatedData, r) = expected[r]

\* a week with a failed date has been returned, with the scores of the dates
\* that answered
C12_Witness ==
    /\ win.pc = "done"
    /\ win.kind = "week"
    /\ win.i = WeekDays
    /\ win.skipped
    /\ Len(win.result) = 2

C29_ResultIndependentOfDateOrder ==
    (win.pc = "done" /\ ~win.counting) => sortByScore(win.reversed) = win.result

\* C30: the map returned by getLastWeekData / getLastMonthData lists the
\* repositories in non-increasing order of total score and applies no limit:
\* it has one entry for every repository named by the map of a day that
\* answered, and no other entry.
C30_SortedDescendingAndComplete ==
    (win.pc = "done" /\ ~win.counting) =>
        /\ \A j \in 1..(Len(win.result) - 1) : win.result[j][2] >= win.result[j + 1][2]
        /\ \A r \in RepoNames : expected[r] > 0 => HasKey(win.result, r)
        /\ Len(win.result) = Cardinality({r \in RepoNames : expected[r] > 0})

\* a window has been returned whose second repository in insertion order has
\* the higher total and is listed first
C30_Witness ==
    /\ win.pc = "done"
    /\ ~win.counting
    /\ Len(win.result) = 2
    /\ win.result[1][2] > win.result[2][2]
    /\ win.aggregatedData[1][1] = win.result[2][1]

-----------------------------------------------------------------------------
(* The dates of a window: getLastWeekData and getLastMonthData build the    *)
(* urls of the day endpoint from the clock and fetch them in turn.  Time is *)
(* counted in minutes since 2023-01-01T00:00Z (the code counts in           *)
(* milliseconds); the runtime's local time is UTC.                          *)

EpochYear == 2023
MinutesPerDay == 1440

IsLeapYear(y) == (y % 4 = 0 /\ y % 100 # 0) \/ y % 400 = 0

DaysInMonth(y, m) ==
    IF m = 2 THEN (IF IsLeapYear(y) THEN 29 ELSE 28)
    ELSE IF m \in {4, 6, 9, 11} THEN 30 ELSE 31

\* a calendar date
Civil(y, m, d) == [y |-> y, m |-> m, d |-> d]

\* the days from the first of month m of year y to the first of January of
\* the epoch year, counted back month by month
RECURSIVE daysBefore(_, _)
daysBefore(y, m) ==
    IF y = EpochYear /\ m = 1 THEN 0
    ELSE IF m = 1 THEN daysBefore(y - 1, 12) + DaysInMonth(y - 1, 12)
    ELSE daysBefore(y, m - 1) + DaysInMonth(y, m - 1)

\* new Date(): the time value of an instant of a calendar date
getTime(date, minute) == (daysBefore(date.y, date.m) + date.d - 1) * MinutesPerDay + minute

\* getFullYear, getMonth + 1, getDate of a time value: the calendar date
\* that holds day number n counted from the first of month m of year y
RECURSIVE civilFrom(_, _, _)
civilFrom(y, m, n) ==
    IF n >= DaysInMonth(y, m)
    THEN (IF m = 12 THEN civilFrom(y + 1, 1, n - DaysInMonth(y, m))
          ELSE civilFrom(y, m + 1, n - DaysInMonth(y, m)))
    ELSE Civil(y, m, n + 1)

toDate(time) == civilFrom(EpochYear, 1, time \div MinutesPerDay)

\* Number.prototype.toString: the decimal digits
RECURSIVE toString(_)
toString(n) == IF n < 10 THEN <<48 + n>> ELSE toString(n \div 10) \o <<48 + (n % 10)>>

\* padStart(2, "0")
padStart(str) == IF Len(str) < 2 THEN <<48>> \o str ELSE str

\* `${year}-${month}-${day}`, the path of the url
dayUrl(date) ==
    toString(date.y) \o <<45>> \o padStart(toString(date.m)) \o <<45>> \o padStart(toString(date.d))

\* mutant of dateBefore: half a day per step
dateBefore_HalfDays(currentDate, i) == currentDate - i * (MinutesPerDay \div 2)

\* new Date(currentDate.getTime() - i * 24 * 60 * 60 * 1000)
dateBefore(currentDate, i) == currentDate - i * MinutesPerDay

\* the instants at which a window is asked for: early and late on days
\* after a February with and without a leap day, and around a new year
CurrentDates ==
    {getTime(d, minute) :
        d \in {Civil(2024, 3, 1), Civil(2024, 3, 20), Civil(2025, 3, 1), Civil(2025, 1, 3)},
        minute \in {0, MinutesPerDay - 1}}

\* lines 24-38: the clock is read and the urls of the last 7 or 30 days are
\* built, today first
getLastWindowUrls(kind, currentDate) ==
    /\ win.pc = "idle"
    /\ win' = [WindowIdle EXCEPT !.pc = "loop", !.kind = kind,
                  !.currentDate = currentDate,
                  !.urls = [k \in 1..WindowDays(kind) |->
                              dayUrl(toDate(dateBefore(currentDate, k - 1)))]]
    /\ expected' = [r \in RepoNames |-> 0]

\* line 43: fetch(url) for the next url of the list
windowFetch ==
    /\ win.pc = "loop"
    /\ win.i < Len(win.urls)
    /\ win' = [win EXCEPT !.pc = "await",
                          !.requested = Append(@, win.urls[win.i + 1]),
                          !.inFlight = @ + 1]
    /\ UNCHANGED expected

\* lines 44-62: the request completes; a failure is skipped, a map is added
windowSettle(resp) ==
    /\ win.pc = "await"
    /\ win' = [win EXCEPT !.pc = "loop", !.i = @ + 1, !.inFlight = @ - 1,
                  !.skipped = @ \/ resp.kind # "ok",
                  !.aggregatedData = IF resp.kind = "ok" THEN addScores(@, resp.data, 1)
                                     ELSE @]
    /\ expected' = [r \in RepoNames |->
                       expected[r] + (IF resp.kind = "ok" THEN ScoreIn(resp.data, r) ELSE 0)]

WindowDatesNext ==
    \/ \E kind \in {"week", "month"}, currentDate \in CurrentDates :
          getLastWindowUrls(kind, currentDate) /\ UNCHANGED windowRest
    \/ windowFetch /\ UNCHANGED windowRest
    \/ \E resp \in {r \in DayResponses : r.data \in {<<>>, << <<(<<97, 110, 47, 120>>), 1>> >>}} :
          windowSettle(resp) /\ UNCHANGED windowRest
    \/ windowReturn /\ UNCHANGED windowRest
    \/ windowRespond /\ UNCHANGED windowRest

SpecWindowDates == AtRest /\ [][WindowDatesNext]_vars

\* the calendar date before a calendar date
dayBefore(date) ==
    IF date.d > 1 THEN Civil(date.y, date.m, date.d - 1)
    ELSE IF date.m > 1 THEN Civil(date.y, date.m - 1, DaysInMonth(date.y, date.m - 1))
    ELSE Civil(date.y - 1, 12, 31)

RECURSIVE daysBack(_, _)
daysBack(date, k) == IF k = 0 THEN date ELSE daysBack(dayBefore(date), k - 1)

\* C37: /week makes exactly 7 and /month exactly 30 requests to the day
\* endpoint, one for each of the 7 or 30 consecutive calendar dates that end
\* today, all different, and one after the other: a request is made only
\* when the one before has completed, so that at most one is in flight.
C37_OneRequestPerDateInTurn ==
    LET N == WindowDays(win.kind)
        today == toDate(win.currentDate)
    IN  win.pc \in {"loop", "await", "done"} =>
           /\ win.inFlight = (IF win.pc = "await" THEN 1 ELSE 0)
           /\ Len(win.requested) = win.i + win.inFlight
           /\ Len(win.requested) <= N
           /\ win.pc = "done" => Len(win.requested) = N
           /\ \A k \in 1..Len(win.requested) :
                 win.requested[k] = dayUrl(daysBack(today, k - 1))
           /\ \A j, k \in 1..Len(win.requested) :
                 win.requested[j] = win.requested[k] => j = k

\* a month asked for late on 2024-03-20 has been answered: the 30 requests
\* went from 2024-03-20 back to 2024-02-20 over the leap day, days that
\* failed included
C37_Witness ==
    /\ win.pc = "done"
    /\ win.kind = "month"
    /\ win.skipped
    /\ Len(win.requested) = MonthDays
    /\ win.requested[1] = <<50, 48, 50, 52, 45, 48, 51, 45, 50, 48>>
    /\ win.requested[21] = <<50, 48, 50, 52, 45, 48, 50, 45, 50, 57>>
    /\ win.requested[30] = <<50, 48, 50, 52, 45, 48, 50, 45, 50, 48>>

-----------------------------------------------------------------------------
(* Enrichment Engine: RepositoryEnricher.  enrichRepositories starts one    *)
(* getRepositoryInfo promise per repository; each await of a promise is a   *)
(* step, and the steps of different promises interleave freely.             *)

Timeframes == {"day"}

\* the score maps handed over for enrichment: the day maps of short rankings
EnrichInputs ==
    {formatResponse(responseJson(RankedEntries(r)), Undefined) :
        r \in {l \in RankedLists : Len(l) <= MaxEnriched}}

\* the metadata service (external): two versions of a repository's metadata,
\* a non-2xx status, a network exception
MetaVersions == {"meta1"}

MetadataOutcomes ==
    {[kind |-> "ok", info |-> m] : m \in MetaVersions}
    \cup {[kind |-> k, info |-> "null"] : k \in {"http_error", "network_error"}}

\* an entry { score, info, error? }: info "null" is null, error "" is absent
\* and error "message" is the message of the exception caught
Entry(score, info, error) == [score |-> score, info |-> info, error |-> error]
NoEntry == Entry(0, "null", "")

repoInfoCacheKey(timeframe, repoFullName) == <<"repo_info", timeframe, repoFullName>>

\* getFromCache: the parsed entry, or null on a miss or when the read throws
getFromCacheHit(store, key, readThrows) == ~readThrows /\ key \in DOMAIN store
getFromCacheValue(store, key) == JSONparse(store[key])

\* storeInCache: a write that throws is logged and ignored
storeInCache(store, key, data, writeThrows) ==
    IF writeThrows THEN store ELSE KvPut(store, key, JSONstringify(data))

\* fetchRepositoryInfo: { score, info } or { score, info: null, error }
fetchRepositoryInfo(score, outcome) ==
    IF outcome.kind = "ok" THEN Entry(score, outcome.info, "")
    ELSE Entry(score, "null", "message")

\* getRepositoryInfo, line 217: only a successful result is cached
isCacheable(repoInfo) == repoInfo.info # "null" /\ repoInfo.error = ""

\* mutant of thenStore: a failed entry is left out of the result
thenStore_DropFailed(enrichedData, repoFullName, result) ==
    IF result.info = "null" THEN enrichedData
    ELSE ObjSet(enrichedData, repoFullName, result)

\* the then-callback: enrichedData[repoFullName] = result
thenStore(enrichedData, repoFullName, result) ==
    ObjSet(enrichedData, repoFullName, result)

KeySet(o) == {o[j][1] : j \in 1..Len(o)}

\* enrichRepositories, lines 156-173: one promise per entry of repoData
enrichRepositories(repoData, timeframe) ==
    /\ enr.pc = "idle"
    /\ enr' = [EnrichIdle EXCEPT !.pc = "running", !.repoData = repoData,
                                 !.timeframe = timeframe]
    /\ tasks' = [r \in KeySet(repoData) |->
                    [pc |-> "get", score |-> Get(repoData, r), result |-> NoEntry,
                     hit |-> FALSE, cached |-> NoEntry,
                     outcome |-> [kind |-> "none", info |-> "null"]]]
    /\ UNCHANGED kv

\* mutant of getRepositoryInfoLookup: the entry of any repository of the
\* timeframe serves as a hit
getRepositoryInfoLookup_AnyEntry(repo, readThrows) ==
    /\ enr.pc = "running"
    /\ tasks[repo].pc = "get"
    /\ LET key == repoInfoCacheKey(enr.timeframe, repo)
           stored == {k \in DOMAIN kv : k[1] = "repo_info"}
           hit == getFromCacheHit(kv, key, readThrows)
       IN
       IF ~readThrows /\ stored # {}
       THEN LET cachedData == getFromCacheValue(kv, CHOOSE k \in stored : TRUE) IN
            tasks' = [tasks EXCEPT ![repo].pc = "then",
                         ![repo].hit = hit,
                         ![repo].cached = IF hit THEN getFromCacheValue(kv, key) ELSE NoEntry,
                         ![repo].result = [cachedData EXCEPT !.score = tasks[repo].score]]
       ELSE tasks' = [tasks EXCEPT ![repo].pc = "fetch"]
    /\ UNCHANGED <<kv, enr>>

\* getRepositoryInfo, lines 196-210: the cache lookup of one promise (hit and
\* cached record what the promise found under its own key)
getRepositoryInfoLookup(repo, readThrows) ==
    /\ enr.pc = "running"
    /\ tasks[repo].pc = "get"
    /\ LET key == repoInfoCacheKey(enr.timeframe, repo) IN
       IF getFromCacheHit(kv, key, readThrows)
       THEN LET cachedData == getFromCacheValue(kv, key) IN
            tasks' = [tasks EXCEPT ![repo].pc = "then",
                         ![repo].hit = TRUE,
                         ![repo].cached = cachedData,
                         ![repo].result = [cachedData EXCEPT !.score = tasks[repo].score]]
       ELSE tasks' = [tasks EXCEPT ![repo].pc = "fetch"]
    /\ UNCHANGED <<kv, enr>>

\* getRepositoryInfo, line 214: the metadata request of one promise (outcome
\* records what the metadata service answered)
getRepositoryInfoFetch(repo, outcome) ==
    /\ enr.pc = "running"
    /\ tasks[repo].pc = "fetch"
    /\ LET repoInfo == fetchRepositoryInfo(tasks[repo].score, outcome) IN
       tasks' = [tasks EXCEPT ![repo].result = repoInfo,
                    ![repo].outcome = outcome,
                    ![repo].pc = IF isCacheable(repoInfo) THEN "put" ELSE "then"]
    /\ UNCHANGED <<kv, enr>>

\* getRepositoryInfo, lines 217-221: the cache write of one promise
getRepositoryInfoStore(repo, writeThrows) ==
    /\ enr.pc = "running"
    /\ tasks[repo].pc = "put"
    /\ kv' = storeInCache(kv, repoInfoCacheKey(enr.timeframe, repo),
                          tasks[repo].result, writeThrows)
    /\ tasks' = [tasks EXCEPT ![repo].pc = "then"]
    /\ UNCHANGED enr

\* enrichRepositories, lines 168-170: the then-callback of one promise
enrichThen(repo) ==
    /\ enr.pc = "running"
    /\ tasks[repo].pc = "then"
    /\ enr' = [enr EXCEPT !.enrichedData = thenStore(@, repo, tasks[repo].result)]
    /\ tasks' = [tasks EXCEPT ![repo].pc = "done"]
    /\ UNCHANGED kv

\* enrichRepositories, lines 176-178: Promise.all has settled
enrichReturn ==
    /\ enr.pc = "running"
    /\ \A r \in DOMAIN tasks : tasks[r].pc = "done"
    /\ enr' = [enr EXCEPT !.pc = "returned"]
    /\ UNCHANGED <<kv, tasks>>

\* the caller has taken the result
enrichDone ==
    /\ enr.pc = "returned"
    /\ enr' = EnrichIdle
    /\ tasks' = <<>>
    /\ UNCHANGED kv

\* a per-repository cache entry reaches its expirationTtl
repoInfoExpire(key) ==
    /\ kv' = KvDelete(kv, key)
    /\ UNCHANGED enrichVars

\* the variables the Enrichment Engine leaves alone
enrichRest == <<call, last, undisturbed, windowVars, req, fe, rf, pop, repoCache, gen, llm, calls>>

EnrichCallNext ==
    \/ \E d \in EnrichInputs, tf \in Timeframes :
          enrichRepositories(d, tf) /\ UNCHANGED enrichRest
    \/ \E r \in DOMAIN tasks, readThrows \in BOOLEAN :
          getRepositoryInfoLookup(r, readThrows) /\ UNCHANGED enrichRest
    \/ \E r \in DOMAIN tasks, o \in MetadataOutcomes :
          getRepositoryInfoFetch(r, o) /\ UNCHANGED enrichRest
    \/ \E r \in DOMAIN tasks, writeThrows \in BOOLEAN :
          getRepositoryInfoStore(r, writeThrows) /\ UNCHANGED enrichRest
    \/ \E r \in DOMAIN tasks : enrichThen(r) /\ UNCHANGED enrichRest
    \/ enrichReturn /\ UNCHANGED enrichRest
    \/ enrichDone /\ UNCHANGED enrichRest
    \/ \E key \in DOMAIN kv : repoInfoExpire(key) /\ UNCHANGED enrichRest

SpecEnrichCall == AtRest /\ [][EnrichCallNext]_vars

\* C4: whatever the cache hits and misses, the fetch outcomes and the order in
\* which the promises complete, enrichRepositories returns a map with exactly
\* one entry per key of the input score map and no other key.
C4_OneEntryPerInputKey ==
    enr.pc = "returned" =>
        /\ KeySet(enr.enrichedData) = KeySet(enr.repoData)
        /\ Len(enr.enrichedData) = Len(enr.repoData)

\* two repositories, one served from the cache and one whose fetch failed,
\* completed in the reverse of the input order
C4_Witness ==
    /\ enr.pc = "returned"
    /\ Len(enr.repoData) = 2
    /\ enr.enrichedData[1][1] = enr.repoData[2][1]
    /\ \E j \in 1..2 : enr.enrichedData[j][2].info = "null"
    /\ \E j \in 1..2 :
          /\ enr.enrichedData[j][2].info # "null"
          /\ repoInfoCacheKey(enr.timeframe, enr.enrichedData[j][1]) \in DOMAIN kv
          /\ kv[repoInfoCacheKey(enr.timeframe, enr.enrichedData[j][1])].json.score
                # enr.enrichedData[j][2].score

\* C24: within one enrichRepositories call the entry of a repository is a
\* function of that repository's own score, of what the cache held under its
\* own key when it was looked up and of the outcome of its own metadata
\* request; the scores, cache entries and outcomes of the other repositories
\* of the call, and the order in which the promises complete, do not enter.
C24_EntryDependsOnOwnInputsOnly ==
    \A r \in DOMAIN tasks :
        LET t == tasks[r]
            own == IF t.hit THEN [t.cached EXCEPT !.score = Get(enr.repoData, r)]
                   ELSE fetchRepositoryInfo(Get(enr.repoData, r), t.outcome)
        IN  /\ t.pc \in {"put", "then", "done"} => t.result = own
            /\ t.pc = "done" => Get(enr.enrichedData, r) = own

\* a call has returned in which one repository was served from its cache
\* entry while the metadata request of the other one failed
C24_Witness ==
    /\ enr.pc = "returned"
    /\ Len(enr.repoData) = 2
    /\ \E r1, r2 \in DOMAIN tasks :
          /\ tasks[r1].hit
          /\ tasks[r1].cached.score # tasks[r1].score
          /\ ~tasks[r2].hit
          /\ tasks[r2].outcome.kind = "network_error"
          /\ enr.enrichedData[1][1] = r2

\* C28 as stated: at every moment the metadata requests in flight for one
\* enrichRepositories call number at most the dispatcher's concurrency
\* ceiling, however many repositories the score map holds.
C28_InFlightWithinCeiling ==
    Cardinality({r \in DOMAIN tasks : tasks[r].pc = "fetch"}) <= ConcurrencyCeiling

-----------------------------------------------------------------------------
(* The Enrichment Engine on every answer of the metadata service: a 200     *)
(* answer carries any JSON value, the value null included (response.json()  *)
(* resolves to it and fetchRepositoryInfo does not look at the value).      *)

MetadataAnswers == MetadataOutcomes \cup {[kind |-> "ok", info |-> "null"]}

EnrichAnyNext ==
    \/ \E d \in EnrichInputs, tf \in Timeframes :
          enrichRepositories(d, tf) /\ UNCHANGED enrichRest
    \/ \E r \in DOMAIN tasks, readThrows \in BOOLEAN :
          getRepositoryInfoLookup(r, readThrows) /\ UNCHANGED enrichRest
    \/ \E r \in DOMAIN tasks, o \in MetadataAnswers :
          getRepositoryInfoFetch(r, o) /\ UNCHANGED enrichRest
    \/ \E r \in DOMAIN tasks, writeThrows \in BOOLEAN :
          getRepositoryInfoStore(r, writeThrows) /\ UNCHANGED enrichRest
    \/ \E r \in DOMAIN tasks : enrichThen(r) /\ UNCHANGED enrichRest
    \/ enrichReturn /\ UNCHANGED enrichRest
    \/ enrichDone /\ UNCHANGED enrichRest
    \/ \E key \in DOMAIN kv : repoInfoExpire(key) /\ UNCHANGED enrichRest

SpecEnrichAny == AtRest /\ [][EnrichAnyNext]_vars

\* info is there and no error, or info is null and error is a message
Succeeded(entry) == entry.info # "null" /\ entry.error = ""
Failed(entry) == entry.info = "null" /\ entry.error # ""

\* C36 as stated: every entry the Enrichment Engine produces either has info
\* and no error, or has info null and an error message; and only entries of
\* the first kind are written to the per-repository cache.
C36_EntryIsSuccessOrFailure ==
    /\ \A r \in DOMAIN tasks :
          tasks[r].pc \in {"put", "then", "done"} =>
              (Succeeded(tasks[r].result) \/ Failed(tasks[r].result))
    /\ \A j \in 1..Len(enr.enrichedData) :
          Succeeded(enr.enrichedData[j][2]) \/ Failed(enr.enrichedData[j][2])
    /\ \A key \in DOMAIN kv : Succeeded(getFromCacheValue(kv, key))

-----------------------------------------------------------------------------
(* The worker's fetch handler with enrich=true: processResponse over the    *)
(* aggregate cache entry and the Enrichment Engine.                         *)

\* a < b in UTF-16 code-unit order, the order of Array.prototype.sort()
RECURSIVE StrLessFrom(_, _, _)
StrLessFrom(a, b, i) ==
    IF i > Len(a) THEN i <= Len(b)
    ELSE IF i > Len(b) THEN FALSE
    ELSE IF a[i] = b[i] THEN StrLessFrom(a, b, i + 1)
    ELSE a[i] < b[i]

RECURSIVE InsertString(_, _)
InsertString(sorted, x) ==
    IF sorted = <<>> THEN <<x>>
    ELSE IF StrLessFrom(x, Head(sorted), 1) THEN <<x>> \o sorted
    ELSE <<Head(sorted)>> \o InsertString(Tail(sorted), x)

RECURSIVE SortStrings(_)
SortStrings(names) ==
    IF names = <<>> THEN <<>>
    ELSE InsertString(SortStrings(SubSeq(names, 1, Len(names) - 1)), names[Len(names)])

\* Array.prototype.join(',')
RECURSIVE Join(_)
Join(names) ==
    IF names = <<>> THEN <<>>
    ELSE IF Len(names) = 1 THEN names[1]
    ELSE names[1] \o <<44>> \o Join(Tail(names))

\* simpleHash: hash = hash * 31 + char in 32 bits, kept as two 16-bit halves
RECURSIVE hashFrom(_, _, _, _)
hashFrom(str, i, hi, lo) ==
    IF i > Len(str) THEN <<hi, lo>>
    ELSE LET low == (lo * 31) + str[i]
         IN  hashFrom(str, i + 1, ((hi * 31) + (low \div 65536)) % 65536, low % 65536)

HexDigit(d) == IF d < 10 THEN 48 + d ELSE 87 + d

Hex4(n) == <<HexDigit(n \div 4096), HexDigit((n \div 256) % 16),
             HexDigit((n \div 16) % 16), HexDigit(n % 16)>>

\* (hash >>> 0).toString(16).padStart(8, '0')
simpleHash(str) ==
    LET h == hashFrom(str, 1, 0, 0) IN Hex4(h[1]) \o Hex4(h[2])

\* String(n) for a non-negative integer
RECURSIVE NumberToString(_)
NumberToString(n) ==
    IF n < 10 THEN <<48 + n>> ELSE NumberToString(n \div 10) \o <<48 + (n % 10)>>

\* limit || 'nolimit'
limitKeyPart(limit) ==
    IF Truthy(limit) THEN NumberToString(limit.n)
    ELSE <<110, 111, 108, 105, 109, 105, 116>>

\* processResponse, lines 115-116
enrichedCacheKey(timeframe, data, limit, includeErrors) ==
    <<"enriched", timeframe, simpleHash(Join(SortStrings(Keys(data)))),
      limitKeyPart(limit), IF includeErrors THEN "with_errors" ELSE "no_errors">>

\* processResponse, lines 130-134: scores refreshed from the current data
updateScores(enrichedData, data) ==
    [j \in 1..Len(enrichedData) |->
        IF HasKey(data, enrichedData[j][1])
        THEN <<enrichedData[j][1],
               [enrichedData[j][2] EXCEPT !.score = Get(data, enrichedData[j][1])]>>
        ELSE enrichedData[j]]

\* the filter predicate of line 174
isSuccessful(repoData) == repoData.error = "" /\ repoData.info # "null"

RECURSIVE FilterSuccessful(_, _)
FilterSuccessful(enrichedData, j) ==
    IF j > Len(enrichedData) THEN <<>>
    ELSE (IF isSuccessful(enrichedData[j][2]) THEN <<enrichedData[j]>> ELSE <<>>)
         \o FilterSuccessful(enrichedData, j + 1)

\* processResponse, lines 171-181
filteredData(enrichedData, includeErrors) ==
    IF includeErrors THEN enrichedData ELSE FilterSuccessful(enrichedData, 1)

\* processResponse, lines 184-188
finalData(filtered, limit) ==
    IF Truthy(limit) /\ limit.n > 0
    THEN FromEntriesFrom(Slice0(filtered, limit.n), 1, <<>>)
    ELSE filtered

\* the query parameters of an enrich request
RequestLimitParams == {<<>>, <<49>>}

\* DayController's answer handed to processResponse: 200 with the day map of
\* a ranking (the controller has applied the limit already), or an error;
\* full is the map the same ranking gives without a limit
ControllerResponses(limitParam) ==
    {[ok |-> TRUE, timeframe |-> "day",
      full |-> formatResponse(responseJson(RankedEntries(r)), Undefined),
      data |-> formatResponse(responseJson(RankedEntries(r)),
                              IF limitParam = <<>> THEN Undefined ELSE parseInt(limitParam))] :
        r \in {l \in RankedLists :
                    /\ Len(l) <= MaxEnriched
                    /\ \A i, j \in 1..Len(l) : l[i] = l[j] => i = j}}
    \cup {[ok |-> FALSE, timeframe |-> "day", full |-> <<>>, data |-> <<>>]}

\* WeekController's answer handed to processResponse: 200 with the map of
\* the last week, sorted by score (the controller applies no limit), or an
\* error
WindowResponses ==
    {[ok |-> TRUE, timeframe |-> "week", full |-> r.full, data |-> r.full] :
        r \in {c \in ControllerResponses(<<>>) : c.ok}}
    \cup {[ok |-> FALSE, timeframe |-> "week", full |-> <<>>, data |-> <<>>]}

\* what the services of one getRepositoryInfo promise do: whether the cache
\* read throws, the metadata service's answer, whether the cache write throws
\* (a read that throws is a miss, a write is attempted after a good answer only)
TaskIO ==
    {io \in [readThrows : {FALSE}, outcome : MetadataOutcomes, writeThrows : BOOLEAN] :
        io.writeThrows => io.outcome.kind = "ok"}

\* getRepositoryInfo, lines 196-221, run to completion: the entry it returns
getRepositoryInfoResult(store, timeframe, repoFullName, score, io) ==
    LET cacheKey == repoInfoCacheKey(timeframe, repoFullName) IN
    IF getFromCacheHit(store, cacheKey, io.readThrows)
    THEN [getFromCacheValue(store, cacheKey) EXCEPT !.score = score]
    ELSE fetchRepositoryInfo(score, io.outcome)

\* getRepositoryInfo, lines 196-221, run to completion: the store it leaves
getRepositoryInfoStored(store, timeframe, repoFullName, score, io) ==
    LET cacheKey == repoInfoCacheKey(timeframe, repoFullName)
        repoInfo == fetchRepositoryInfo(score, io.outcome)
    IN  IF getFromCacheHit(store, cacheKey, io.readThrows) \/ ~isCacheable(repoInfo)
        THEN store
        ELSE storeInCache(store, cacheKey, repoInfo, io.writeThrows)

\* the completion orders of the promises of one call
CompletionOrders(repoData) ==
    {o \in [1..Len(repoData) -> KeySet(repoData)] :
        \A r \in KeySet(repoData) : \E j \in 1..Len(repoData) : o[j] = r}

\* enrichRepositories run to completion, its promises completing in `order`:
\* <<the store it leaves, the map it returns>>
RECURSIVE enrichRepositoriesFrom(_, _, _, _, _, _, _)
enrichRepositoriesFrom(repoData, timeframe, order, ios, j, store, enrichedData) ==
    IF j > Len(order) THEN <<store, enrichedData>>
    ELSE LET repo == order[j]
             score == Get(repoData, repo)
         IN  enrichRepositoriesFrom(repoData, timeframe, order, ios, j + 1,
                getRepositoryInfoStored(store, timeframe, repo, score, ios[repo]),
                thenStore(enrichedData, repo,
                    getRepositoryInfoResult(store, timeframe, repo, score, ios[repo])))

enrichRepositoriesAll(store, repoData, timeframe, order, ios) ==
    enrichRepositoriesFrom(repoData, timeframe, order, ios, 1, store, <<>>)

\* getRepositoryInfo, lines 198-206: the repositories of one call whose entry
\* is not taken from the store, so that the metadata service is asked
metadataRequests(store, repoData, timeframe, ios) ==
    {repo \in KeySet(repoData) :
        ~getFromCacheHit(store, repoInfoCacheKey(timeframe, repo), ios[repo].readThrows)}

\* lines 190-198: the enriched response; asked are the repositories whose
\* metadata was requested for it
respondEnriched(enrichedData, asked, source) ==
    req' = [req EXCEPT !.pc = "responded", !.source = source, !.status = 200,
                       !.enrichedData = enrichedData, !.asked = asked,
                       !.out = finalData(filteredData(enrichedData, req.includeErrors),
                                         req.limit)]

\* the paths requested, url.pathname.slice(1), as code units
Paths ==
    [date |-> <<50, 48, 50, 53, 45, 48, 49, 45, 48, 49>>,          \* "2025-01-01"
     week |-> <<50, 48, 50, 53, 45, 87, 48, 55>>,                  \* "2025-W07"
     weekShort |-> <<50, 48, 50, 53, 45, 87, 55>>,                 \* "2025-W7"
     week53 |-> <<50, 48, 50, 53, 45, 87, 53, 51>>,                \* "2025-W53"
     month |-> <<50, 48, 50, 53, 45, 48, 49>>,                     \* "2025-01"
     day |-> <<100, 97, 121>>,                                     \* "day"
     lastWeek |-> <<119, 101, 101, 107>>,                          \* "week"
     lastMonth |-> <<109, 111, 110, 116, 104>>,                    \* "month"
     root |-> <<>>,                                                \* ""
     word |-> <<100, 97, 121, 115>>,                               \* "days"
     shortDate |-> <<50, 48, 50, 53, 45, 49, 45, 49>>,             \* "2025-1-1"
     shortMonth |-> <<50, 48, 50, 53, 45, 49>>,                    \* "2025-1"
     longDate |-> <<50, 48, 50, 53, 45, 48, 49, 45, 48, 49, 120>>] \* "2025-01-01x"

\* \d at each of the positions from..to of s
IsDigits(s, from, to) == \A i \in from..to : s[i] \in 48..57

\* /^\d{4}-\d{2}-\d{2}$/
dayPattern(path) ==
    /\ Len(path) = 10
    /\ IsDigits(path, 1, 4) /\ path[5] = 45
    /\ IsDigits(path, 6, 7) /\ path[8] = 45
    /\ IsDigits(path, 9, 10)

\* /^\d{4}-W(0?[1-9]|[1-4][0-9]|5[0-2])$/
weekPattern(path) ==
    /\ Len(path) \in {7, 8}
    /\ IsDigits(path, 1, 4) /\ path[5] = 45 /\ path[6] = 87
    /\ LET w == SubSeq(path, 7, Len(path)) IN
       \/ Len(w) = 1 /\ w[1] \in 49..57
       \/ Len(w) = 2 /\ w[1] = 48 /\ w[2] \in 49..57
       \/ Len(w) = 2 /\ w[1] \in 49..52 /\ w[2] \in 48..57
       \/ Len(w) = 2 /\ w[1] = 53 /\ w[2] \in 48..50

\* mutant of monthPattern: /^\d{4}-\d{1,2}$/
monthPattern_OneDigit(path) ==
    /\ Len(path) \in {6, 7}
    /\ IsDigits(path, 1, 4) /\ path[5] = 45
    /\ IsDigits(path, 6, Len(path))

\* /^\d{4}-\d{2}$/
monthPattern(path) ==
    /\ Len(path) = 7
    /\ IsDigits(path, 1, 4) /\ path[5] = 45
    /\ IsDigits(path, 6, 7)

\* the route the fetch handler takes, lines 219-264, first match first
route(path) ==
    IF dayPattern(path) THEN "date"
    ELSE IF weekPattern(path) THEN "iso_week"
    ELSE IF monthPattern(path) THEN "iso_month"
    ELSE IF path = Paths.day THEN "day"
    ELSE IF path = Paths.lastMonth THEN "month"
    ELSE IF path = Paths.lastWeek THEN "week"
    ELSE "unmatched"

\* fetch handler lines 48-58 and 216-264, the requests it answers itself: a
\* CORS preflight, an ISO week or month, an unmatched path.  The other routes
\* call a controller and hand its response to processResponse (below).
fetch(method, path) ==
    /\ req.pc \in {"idle", "responded"}
    /\ req.count < MaxRequests
    /\ method = "OPTIONS" \/ route(path) \in {"iso_week", "iso_month", "unmatched"}
    /\ LET r == [RequestIdle EXCEPT !.count = req.count + 1, !.method = method,
                    !.path = path, !.pc = "responded", !.source = "router"]
       IN  req' = IF method = "OPTIONS" THEN [r EXCEPT !.status = 200]
                  ELSE IF route(path) = "unmatched"
                  THEN [r EXCEPT !.status = 400,
                          !.text = "Please fetch YYYY-MM-DD, YYYY-W1-52 (week), or YYYY-MM (month)"]
                  ELSE [r EXCEPT !.status = 501, !.text = "api not implemented yet"]
    /\ UNCHANGED kv

\* fetch handler lines 56-74, 219-224 and 253-258 and processResponse lines
\* 97-122: a request of a date, answered by DayController, or of the last
\* week, answered by WeekController
processResponse(response, shouldEnrich, limitParam, includeErrors, bypassCache) ==
    /\ req.pc \in {"idle", "responded"}
    /\ req.count < MaxRequests
    /\ LET limit == IF limitParam = <<>> THEN Undefined ELSE parseInt(limitParam)
           r == [RequestIdle EXCEPT !.count = req.count + 1,
                    !.path = IF response.timeframe = "day" THEN Paths.date
                             ELSE Paths.lastWeek,
                    !.full = response.full,
                    !.data = response.data,
                    !.timeframe = response.timeframe, !.limit = limit,
                    !.includeErrors = includeErrors, !.bypassCache = bypassCache]
       IN  IF ~shouldEnrich \/ ~response.ok
           THEN req' = [r EXCEPT !.pc = "responded", !.source = "passthrough",
                           !.status = IF response.ok THEN 200 ELSE 500,
                           !.out = response.data]
           ELSE req' = [r EXCEPT !.pc = IF bypassCache THEN "direct" ELSE "get"]
    /\ UNCHANGED kv

\* processResponse lines 123-135 and 151-153: the aggregate cache lookup
processResponseLookup(readThrows) ==
    /\ req.pc = "get"
    /\ LET cacheKey == enrichedCacheKey(req.timeframe, req.data, req.limit,
                                        req.includeErrors)
       IN  IF readThrows THEN req' = [req EXCEPT !.pc = "direct"]
           ELSE IF cacheKey \in DOMAIN kv
           THEN respondEnriched(updateScores(JSONparse(kv[cacheKey]), req.data), {}, "cache")
           ELSE req' = [req EXCEPT !.pc = "miss"]
    /\ UNCHANGED kv

\* processResponse lines 136-153: enrichment on a cache miss and the write of
\* its full result; a write that throws leads to the fallback enrichment
processResponseEnrichAndStore(order, ios, writeThrows) ==
    /\ req.pc = "miss"
    /\ LET done == enrichRepositoriesAll(kv, req.data, req.timeframe, order, ios)
       IN  IF writeThrows
           THEN /\ kv' = done[1]
                /\ req' = [req EXCEPT !.pc = "direct"]
           ELSE /\ kv' = KvPut(done[1],
                               enrichedCacheKey(req.timeframe, req.data, req.limit,
                                                req.includeErrors),
                               JSONstringify(done[2]))
                /\ respondEnriched(done[2],
                              metadataRequests(kv, req.data, req.timeframe, ios),
                              "enriched")

\* processResponse lines 154-167: an enrichment whose result is not cached
processResponseEnrichDirect(order, ios) ==
    /\ req.pc = "direct"
    /\ LET done == enrichRepositoriesAll(kv, req.data, req.timeframe, order, ios)
       IN  /\ kv' = done[1]
           /\ respondEnriched(done[2],
                              metadataRequests(kv, req.data, req.timeframe, ios),
                              "enriched")

\* a cache entry reaches its expirationTtl between two requests
cacheExpire(key) ==
    /\ req.pc \in {"idle", "responded"}
    /\ kv' = KvDelete(kv, key)
    /\ UNCHANGED req

\* the variables an enrich request leaves alone
requestRest == <<call, last, undisturbed, windowVars, enrichVars, fe, rf, pop, repoCache, gen, llm, calls>>

RequestNext ==
    \/ \E method \in {"GET", "OPTIONS"}, k \in DOMAIN Paths :
         fetch(method, Paths[k]) /\ UNCHANGED requestRest
    \/ \E shouldEnrich, includeErrors, bypassCache \in BOOLEAN, p \in RequestLimitParams :
         \E response \in ControllerResponses(p) :
            processResponse(response, shouldEnrich, p, includeErrors, bypassCache)
            /\ UNCHANGED requestRest
    \/ \E readThrows \in BOOLEAN : processResponseLookup(readThrows) /\ UNCHANGED requestRest
    \/ \E order \in CompletionOrders(req.data), writeThrows \in BOOLEAN :
         \E ios \in [KeySet(req.data) -> TaskIO] :
            processResponseEnrichAndStore(order, ios, writeThrows) /\ UNCHANGED requestRest
    \/ \E order \in CompletionOrders(req.data) :
         \E ios \in [KeySet(req.data) -> TaskIO] :
            processResponseEnrichDirect(order, ios) /\ UNCHANGED requestRest
    \/ \E key \in DOMAIN kv : cacheExpire(key) /\ UNCHANGED requestRest

SpecRequest == AtRest /\ [][RequestNext]_vars

\* the requests of /week: the same handler over WeekController's answers
WindowRequestNext ==
    \/ \E shouldEnrich, includeErrors, bypassCache \in BOOLEAN, p \in RequestLimitParams :
         \E response \in WindowResponses :
            processResponse(response, shouldEnrich, p, includeErrors, bypassCache)
            /\ UNCHANGED requestRest
    \/ \E readThrows \in BOOLEAN : processResponseLookup(readThrows) /\ UNCHANGED requestRest
    \/ \E order \in CompletionOrders(req.data), writeThrows \in BOOLEAN :
         \E ios \in [KeySet(req.data) -> TaskIO] :
            processResponseEnrichAndStore(order, ios, writeThrows) /\ UNCHANGED requestRest
    \/ \E order \in CompletionOrders(req.data) :
         \E ios \in [KeySet(req.data) -> TaskIO] :
            processResponseEnrichDirect(order, ios) /\ UNCHANGED requestRest
    \/ \E key \in DOMAIN kv : cacheExpire(key) /\ UNCHANGED requestRest

SpecWindowRequest == AtRest /\ [][WindowRequestNext]_vars

\* the positions of the failed entries of an enriched map
FailedEntries(enrichedData) ==
    {j \in 1..Len(enrichedData) : enrichedData[j][2].info = "null"}

\* an enriched request without limit has been answered
AnsweredUnlimited ==
    /\ req.pc = "responded"
    /\ req.source \in {"enriched", "cache"}
    /\ ~Truthy(req.limit)

\* C5 as stated: an enrich request without limit and without include_errors
\* is answered with exactly the input repositories whose entry succeeded (no entry with
\* info = null, size = input size minus the number of failed entries); with
\* include_errors every entry, failed or not, is retained.
C5_FilterDropsExactlyFailed ==
    AnsweredUnlimited =>
        /\ KeySet(req.enrichedData) = KeySet(req.data)
        /\ Len(req.enrichedData) = Len(req.data)
        /\ IF req.includeErrors
           THEN req.out = req.enrichedData
           ELSE /\ FailedEntries(req.out) = {}
                /\ KeySet(req.out) =
                     {req.enrichedData[j][1] :
                        j \in (1..Len(req.enrichedData)) \ FailedEntries(req.enrichedData)}
                /\ Len(req.out) =
                     Len(req.data) - Cardinality(FailedEntries(req.enrichedData))

\* C8: a failed enrichment is cached in no tier: no entry of the store, per
\* repository or aggregate, records a failed entry.
C8_NoFailureCached ==
    \A key \in DOMAIN kv :
        IF key[1] = "enriched" THEN FailedEntries(JSONparse(kv[key])) = {}
        ELSE JSONparse(kv[key]).info # "null"

\* an enrich request with a limit and without include_errors has been answered
AnsweredLimited ==
    /\ req.pc = "responded"
    /\ req.source \in {"enriched", "cache"}
    /\ Truthy(req.limit)
    /\ ~req.includeErrors

\* the repositories of a score map whose enrichment is stored, hence succeeds
StoredSuccesses(map) ==
    {j \in 1..Len(map) : repoInfoCacheKey(req.timeframe, map[j][1]) \in DOMAIN kv}

\* C13 as stated, for the day endpoint: failed entries consume no limit slot,
\* the answer to enrich=true&limit=K has min(K, S) entries, S counting the
\* repositories of the unlimited score map whose enrichment succeeds; here S
\* is bounded from below by the repositories whose metadata is stored.
C13_FailedEntriesTakeNoSlot ==
    AnsweredLimited =>
        Len(req.out) >= Min(req.limit.n, Cardinality(StoredSuccesses(req.full)))

\* C20 as stated: every key under which an aggregation or enrichment result
\* is stored carries a schema-version segment (the day key's is "v4").
C20_KeysCarrySchemaVersion ==
    \A key \in DOMAIN kv : key[1] = "v4" \/ key[2] = "v4"

\* the request was answered by the fetch handler itself, without a
\* controller, an upstream request or the enricher
AnsweredByRouter ==
    /\ req.pc = "responded"
    /\ req.source = "router"
    /\ req.asked = {}

\* paths that are neither a date, a week or a month nor one of the tokens
UnrecognisedPaths ==
    {Paths.root, Paths.word, Paths.shortDate, Paths.shortMonth, Paths.longDate}

\* the hint of the accepted formats
FormatHint == "Please fetch YYYY-MM-DD, YYYY-W1-52 (week), or YYYY-MM (month)"

C18_IsoWeekAndMonthServed ==
    (req.pc = "responded" /\ req.method = "GET"
        /\ req.path \in {Paths.week, Paths.weekShort, Paths.month}) =>
        req.status = 200

\* C14 as stated: a request with bypass_cache=true is built from no stored
\* value; in particular the metadata of every repository of its score map is
\* requested anew and no per-repository entry of the store is returned.
C14_BypassUsesNoStoredValue ==
    (req.pc = "responded" /\ req.bypassCache /\ req.source # "passthrough") =>
        /\ req.source = "enriched"
        /\ req.asked = KeySet(req.data)

\* C23 as stated: an enriched answer, built by an enrichment (with or without
\* per-repository cache hits) or read from the aggregate entry, gives every
\* repository it holds the score of the current score map, never the score
\* stored with the cached entry.
C23_HitCarriesCurrentScore ==
    (req.pc = "responded" /\ req.source \in {"enriched", "cache"}) =>
        \A j \in 1..Len(req.enrichedData) :
            /\ HasKey(req.data, req.enrichedData[j][1])
            /\ req.enrichedData[j][2].score = Get(req.data, req.enrichedData[j][1])

\* C25 as stated: a /week request with enrich=true and limit=K for which more
\* than K repositories enriched successfully returns the K highest-scoring
\* of them, whatever the order in which the enrichment promises completed.
C25_LimitKeepsHighestScores ==
    LET successes == FilterSuccessful(req.enrichedData, 1) IN
    (/\ req.pc = "responded"
     /\ req.timeframe = "week"
     /\ req.source \in {"enriched", "cache"}
     /\ Truthy(req.limit)
     /\ Len(successes) > req.limit.n) =>
        /\ Len(req.out) = req.limit.n
        /\ \A j \in 1..Len(req.out) : \A k \in 1..Len(successes) :
              HasKey(req.out, successes[k][1])
              \/ req.out[j][2].score >= successes[k][2].score

\* C40 as stated: an answer read from the aggregate entry holds exactly the
\* repositories of the current score map: a request never reads the enriched
\* response cached for another set of repositories.
C40_HitHoldsCurrentRepositories ==
    (req.pc = "responded" /\ req.source = "cache") =>
        KeySet(req.enrichedData) = KeySet(req.data)

-----------------------------------------------------------------------------
(* Fan-Out Dispatcher client: fetchEach reads the dispatcher's event stream *)
(* chunk by chunk.  A stream is a sequence of atoms: the line prefixes      *)
(* "event: " and "data: ", an event type, a piece of a payload, a newline;  *)
(* a chunk boundary may fall between any two atoms.                         *)

Atom(k, i, r) == [k |-> k, i |-> i, r |-> r]
NL == Atom("newline", 0, "")
EventPrefix == Atom("event: ", 0, "")
DataPrefix == Atom("data: ", 0, "")

\* the payload of the result event, {"array":[...]} with one piece per item
resultPayload(outcomes) ==
    <<Atom("{array:[", 0, "")>>
    \o [i \in 1..Len(outcomes) |-> Atom("item", i, outcomes[i])]
    \o <<Atom("]}", 0, "")>>

\* the dispatcher (not in this repository): one update event per completed
\* item, in completion order, then the result event with the ordered array
RECURSIVE updateEvents(_, _)
updateEvents(order, j) ==
    IF j > Len(order) THEN <<>>
    ELSE <<EventPrefix, Atom("update", 0, ""), NL,
           DataPrefix, Atom("progress", j, order[j]), NL, NL>>
         \o updateEvents(order, j + 1)

dispatch(outcomes, order) ==
    updateEvents([j \in 1..Len(order) |-> outcomes[order[j]]], 1)
    \o <<EventPrefix, Atom("result", 0, ""), NL, DataPrefix>>
    \o resultPayload(outcomes) \o <<NL, NL>>

\* buffer.split("\n"): the lines, the last one being the unterminated rest
RECURSIVE split(_, _, _)
split(buffer, i, line) ==
    IF i > Len(buffer) THEN <<line>>
    ELSE IF buffer[i] = NL THEN <<line>> \o split(buffer, i + 1, <<>>)
    ELSE split(buffer, i + 1, Append(line, buffer[i]))

\* mutant of unterminated: the rest of the chunk is thrown away
unterminated_Dropped(pieces) == <<>>

\* buffer = lines.pop() || ""
unterminated(pieces) == pieces[Len(pieces)]

startsWith(line, prefix) == Len(line) >= 1 /\ line[1] = prefix

\* lines.indexOf(line): the first position holding an equal string, 0-based
indexOf(lines, line) ==
    (CHOOSE j \in 1..Len(lines) :
        lines[j] = line /\ \A k \in 1..(j - 1) : lines[k] # line) - 1

\* JSON.parse(resultBuffer) and parsed.array: only the complete payload parses
JSONparseResult(text) ==
    IF /\ Len(text) >= 2
       /\ text[1].k = "{array:["
       /\ text[Len(text)].k = "]}"
       /\ \A j \in 2..(Len(text) - 1) : text[j].k = "item"
    THEN [ok |-> TRUE,
          array |-> [i \in 1..(Len(text) - 2) |->
                        [item |-> text[i + 1].i, r |-> text[i + 1].r]]]
    ELSE [ok |-> FALSE, array |-> <<>>]

\* the for loop of lines 59-87 from line j on; st holds collectingResult,
\* resultBuffer, the payloads logged, and the array returned if any
RECURSIVE processLines(_, _, _)
processLines(lines, j, st) ==
    IF j > Len(lines) \/ st.returned THEN st
    ELSE LET line == lines[j]
             isEvent == startsWith(line, EventPrefix)
             eventType == IF isEvent /\ Len(line) >= 2 THEN line[2].k ELSE ""
             data == IF indexOf(lines, line) + 2 <= Len(lines)
                     THEN lines[indexOf(lines, line) + 2] ELSE <<>>
             logged == IF eventType = "update" /\ startsWith(data, DataPrefix)
                       THEN [st EXCEPT !.logs = Append(@, Tail(data))] ELSE st
         IN  IF eventType = "result"
             THEN processLines(lines, j + 1, [st EXCEPT !.collectingResult = TRUE])
             ELSE IF eventType = "update" /\ ~startsWith(data, DataPrefix)
             THEN processLines(lines, j + 1, st)
             ELSE IF logged.collectingResult /\ startsWith(line, DataPrefix)
             THEN LET resultBuffer == logged.resultBuffer \o Tail(line)
                      parsed == JSONparseResult(resultBuffer)
                  IN  processLines(lines, j + 1,
                         [logged EXCEPT !.resultBuffer = resultBuffer,
                                        !.returned = parsed.ok,
                                        !.out = parsed.array])
             ELSE processLines(lines, j + 1, logged)

\* the dispatcher's answer: 200 with a stream, a non-2xx status, no body
DispatcherAnswers == {"ok", "not_ok", "no_body"}

\* the orders in which the items of a batch complete
ItemOrders(n) == {o \in [1..n -> 1..n] : \A i \in 1..n : \E j \in 1..n : o[j] = i}

\* fetchEach lines 25-49: the POST and its answer; the connection delivers
\* the first `cut` atoms of the dispatcher's stream
fetchEach(outcomes, order, answer, cut) ==
    /\ fe.pc = "idle"
    /\ fe' = IF answer # "ok"
             THEN [FetchEachIdle EXCEPT !.pc = "thrown", !.outcomes = outcomes]
             ELSE [FetchEachIdle EXCEPT !.pc = "reading", !.outcomes = outcomes,
                      !.stream = SubSeq(dispatch(outcomes, order), 1, cut),
                      !.complete = (cut = Len(dispatch(outcomes, order)))]

\* mutant of readerRead: collectingResult does not outlive the chunk
readerRead_CollectingPerChunk(n) ==
    /\ fe.pc = "reading"
    /\ n \in 1..Len(fe.stream)
    /\ LET pieces == split(fe.buffer \o SubSeq(fe.stream, 1, n), 1, <<>>)
           lines == SubSeq(pieces, 1, Len(pieces) - 1)
           st == processLines(lines, 1,
                    [collectingResult |-> FALSE,
                     resultBuffer |-> fe.resultBuffer, logs |-> fe.logs,
                     returned |-> FALSE, out |-> <<>>])
       IN  fe' = [fe EXCEPT !.stream = SubSeq(fe.stream, n + 1, Len(fe.stream)),
                            !.buffer = unterminated(pieces),
                            !.collectingResult = st.collectingResult,
                            !.resultBuffer = st.resultBuffer,
                            !.logs = st.logs,
                            !.out = st.out,
                            !.pc = IF st.returned THEN "returned" ELSE "reading"]

\* fetchEach lines 52-87: one reader.read() that delivers the next n atoms
readerRead(n) ==
    /\ fe.pc = "reading"
    /\ n \in 1..Len(fe.stream)
    /\ LET pieces == split(fe.buffer \o SubSeq(fe.stream, 1, n), 1, <<>>)
           lines == SubSeq(pieces, 1, Len(pieces) - 1)
           st == processLines(lines, 1,
                    [collectingResult |-> fe.collectingResult,
                     resultBuffer |-> fe.resultBuffer, logs |-> fe.logs,
                     returned |-> FALSE, out |-> <<>>])
       IN  fe' = [fe EXCEPT !.stream = SubSeq(fe.stream, n + 1, Len(fe.stream)),
                            !.buffer = unterminated(pieces),
                            !.collectingResult = st.collectingResult,
                            !.resultBuffer = st.resultBuffer,
                            !.logs = st.logs,
                            !.out = st.out,
                            !.pc = IF st.returned THEN "returned" ELSE "reading"]

\* mutant of readerDone: at the end of the stream what was collected is returned
readerDone_ReturnsCollected ==
    /\ fe.pc = "reading"
    /\ fe.stream = <<>>
    /\ fe' = [fe EXCEPT !.pc = "returned", !.out = JSONparseResult(fe.resultBuffer).array]

\* fetchEach lines 53 and 90: the stream is done and no result has parsed
readerDone ==
    /\ fe.pc = "reading"
    /\ fe.stream = <<>>
    /\ fe' = [fe EXCEPT !.pc = "thrown"]

\* the variables fetchEach leaves alone
fetchEachRest == <<dayVars, windowVars, enrichVars, req, rf, pop, repoCache, gen, llm, calls>>

FetchEachNext ==
    \/ \E n \in 0..MaxItems, answer \in DispatcherAnswers :
         \E outcomes \in [1..n -> {"ok", "error"}], order \in ItemOrders(n) :
            \E cut \in 0..Len(dispatch(outcomes, order)) :
               fetchEach(outcomes, order, answer, cut) /\ UNCHANGED fetchEachRest
    \/ \E n \in 1..Len(fe.stream) : readerRead(n) /\ UNCHANGED fetchEachRest
    \/ readerDone /\ UNCHANGED fetchEachRest

SpecFetchEach == AtRest /\ [][FetchEachNext]_vars

\* C6: fetchEach returns an array as long as the batch whose i-th element is
\* the outcome of the i-th item, failed or not, and a batch with a failed
\* item whose stream arrives complete does not end in an exception.
C6_PositionalOutcomes ==
    /\ fe.pc = "returned" =>
         /\ Len(fe.out) = Len(fe.outcomes)
         /\ \A i \in 1..Len(fe.out) :
               fe.out[i].item = i /\ fe.out[i].r = fe.outcomes[i]
    /\ fe.pc = "thrown" => ~fe.complete

\* a batch of two whose first item failed and whose second succeeded has
\* been returned, both progress events having been logged on the way
C6_Witness ==
    /\ fe.pc = "returned"
    /\ fe.outcomes = <<"error", "ok">>
    /\ fe.out[1].r = "error" /\ fe.out[2].r = "ok"
    /\ Len(fe.logs) = 2

\* C19: fetchEach returns only once the whole payload of the result event
\* has been received and parsed, and what it returns is the array of that
\* payload, never a progress payload or a part of the result; while the
\* result is incomplete nothing is returned, and a stream that ends before a
\* complete result has been parsed ends the call with an error.
C19_ReturnsOnlyCompleteResult ==
    /\ fe.pc = "returned" =>
          /\ fe.collectingResult
          /\ fe.resultBuffer = resultPayload(fe.outcomes)
          /\ JSONparseResult(fe.resultBuffer).ok
          /\ fe.out = JSONparseResult(fe.resultBuffer).array
    /\ fe.pc = "reading" => fe.out = <<>> /\ ~JSONparseResult(fe.resultBuffer).ok
    /\ fe.pc = "thrown" => fe.out = <<>> /\ ~JSONparseResult(fe.resultBuffer).ok

\* the stream of a batch of two ended inside the data line of the result
\* event, after both progress events: the call has thrown
C19_Witness ==
    /\ fe.pc = "thrown"
    /\ Len(fe.outcomes) = 2
    /\ Len(fe.logs) = 2
    /\ fe.collectingResult
    /\ Len(fe.buffer) >= 3
    /\ fe.buffer[1] = DataPrefix

-----------------------------------------------------------------------------
(* fetchEach on the event streams a server may send: the result payload on  *)
(* one data line or on two, and an update event before the result event,    *)
(* after its event line, or between its two data lines.                     *)

updateEvent(j, r) ==
    <<EventPrefix, Atom("update", 0, ""), NL, DataPrefix, Atom("progress", j, r), NL, NL>>

dataLine(text) == <<DataPrefix>> \o text \o <<NL>>

\* the result event of the batch with its payload cut after `at` pieces
\* (at = 0: one data line) and `inside` put after the first part
resultEvent(outcomes, at, inside) ==
    LET payload == resultPayload(outcomes) IN
    <<EventPrefix, Atom("result", 0, ""), NL>>
    \o (IF at = 0 THEN inside \o dataLine(payload)
        ELSE dataLine(SubSeq(payload, 1, at)) \o inside
             \o dataLine(SubSeq(payload, at + 1, Len(payload))))
    \o <<NL>>

\* the update events of the items in their order, the last one arriving
\* late (after the result event has started) or not
eventStream(outcomes, at, late) ==
    LET n == Len(outcomes)
        early == IF late THEN n - 1 ELSE n
    IN  updateEvents(SubSeq(outcomes, 1, early), 1)
        \o resultEvent(outcomes, at, IF late THEN updateEvent(n, outcomes[n]) ELSE <<>>)

\* fetchEach lines 25-49 on such a stream, of which the connection delivers
\* the first `cut` atoms (received: what the reader is going to be given)
fetchEachFrom(outcomes, stream, answer, cut) ==
    /\ fe.pc = "idle"
    /\ fe' = IF answer # "ok"
             THEN [FetchEachIdle EXCEPT !.pc = "thrown", !.outcomes = outcomes]
             ELSE [FetchEachIdle EXCEPT !.pc = "reading", !.outcomes = outcomes,
                      !.stream = SubSeq(stream, 1, cut),
                      !.received = SubSeq(stream, 1, cut),
                      !.complete = (cut = Len(stream))]

StreamNext ==
    \/ \E n \in 0..MaxItems, answer \in DispatcherAnswers :
         \E outcomes \in {[i \in 1..n |-> r] : r \in {"ok", "error"}},
            at \in 0..n + 1, late \in BOOLEAN :
            /\ late => n > 0
            /\ \E cut \in 0..Len(eventStream(outcomes, at, late)) :
                  fetchEachFrom(outcomes, eventStream(outcomes, at, late), answer, cut)
            /\ UNCHANGED fetchEachRest
    \/ \E n \in 1..Len(fe.stream) : readerRead(n) /\ UNCHANGED fetchEachRest
    \/ readerDone /\ UNCHANGED fetchEachRest

SpecStream == AtRest /\ [][StreamNext]_vars

\* the outcome of fetchEach when the whole stream arrives as one chunk
inOneChunk(stream) ==
    LET pieces == split(stream, 1, <<>>)
        st == processLines(SubSeq(pieces, 1, Len(pieces) - 1), 1,
                 [collectingResult |-> FALSE, resultBuffer |-> <<>>, logs |-> <<>>,
                  returned |-> FALSE, out |-> <<>>])
    IN  IF st.returned THEN [pc |-> "returned", out |-> st.out]
        ELSE [pc |-> "thrown", out |-> <<>>]

\* C32: the outcome of fetchEach depends on the stream only, not on its
\* chunks: however the stream is cut into chunks, inside a line or inside
\* the result payload, fetchEach returns the array, or fails, as it does
\* when the same stream arrives as one chunk.
C32_OutcomeIndependentOfChunking ==
    fe.pc \in {"returned", "thrown"} =>
        [pc |-> fe.pc, out |-> fe.out] = inOneChunk(fe.received)

\* a batch of two was returned from a stream read in several chunks: the
\* two update events were logged with their own payloads, which happens only
\* when they arrive in different chunks (see C34)
C32_Witness ==
    /\ fe.pc = "returned"
    /\ Len(fe.out) = 2
    /\ Len(fe.logs) = 2 /\ fe.logs[1] # fe.logs[2]
    /\ inOneChunk(fe.received).pc = "returned"

IsProgress(atom) == atom.k = "progress"

\* C33 as stated: the payload of an update event never becomes part of the
\* result buffer, also when the update event arrives after the result event
\* has started and before its payload has parsed.
C33_ProgressNeverInResultBuffer ==
    \A j \in 1..Len(fe.resultBuffer) : ~IsProgress(fe.resultBuffer[j])

\* the position of the event line of the result event, or past the end
resultStart(stream) ==
    IF \E j \in 1..Len(stream) : stream[j].k = "result"
    THEN CHOOSE j \in 1..Len(stream) :
            stream[j].k = "result" /\ \A k \in 1..(j - 1) : stream[k].k # "result"
    ELSE Len(stream) + 1

\* the payloads of the update events received before the result event
updatesBeforeResult(stream) ==
    SelectSeq(SubSeq(stream, 1, resultStart(stream) - 1), IsProgress)

\* C34 as stated: with a log callback, fetchEach calls it exactly once for
\* every update event received before the result, with the payload of that
\* event and in stream order, whatever the chunks of the stream.
C34_EveryUpdateLoggedOnce ==
    (/\ fe.pc = "returned"
     /\ updatesBeforeResult(fe.received) = SelectSeq(fe.received, IsProgress))
    => fe.logs = [j \in 1..Len(updatesBeforeResult(fe.received)) |->
                     <<updatesBeforeResult(fe.received)[j]>>]

-----------------------------------------------------------------------------
(* Refresh Scheduler: shouldRefreshCache and hasRefreshedToday over the     *)
(* marker that storePopularReposInCache writes.                             *)

apiRefreshHour == 1
apiRefreshBuffer == 30

Instants ==
    {Time(d, h, m) : d \in 1..MaxDay, h \in {0, 1, 2, 23}, m \in {0, 29, 30, 45, 50}}

Before(t, u) == (t.d * 24 + t.h) * 60 + t.m < (u.d * 24 + u.h) * 60 + u.m

\* shouldRefreshCache lines 357-363
isTimeToRefresh(now) ==
    (now.h = apiRefreshHour /\ now.m >= apiRefreshBuffer) \/ now.h > apiRefreshHour

\* hasRefreshedToday lines 409-435 on what the marker read returned
hasRefreshed(lastRefreshTimestamp, now) ==
    /\ lastRefreshTimestamp # <<>>
    /\ lastRefreshTimestamp[1].d = now.d
    /\ \/ lastRefreshTimestamp[1].h > apiRefreshHour
       \/ /\ lastRefreshTimestamp[1].h = apiRefreshHour
          /\ lastRefreshTimestamp[1].m >= apiRefreshBuffer

\* time passes: the clock reaches the next instant
tick(t) ==
    /\ Before(rf.clock, t)
    /\ \A u \in Instants : ~(Before(rf.clock, u) /\ Before(u, t))
    /\ rf' = [rf EXCEPT !.clock = t]

\* storePopularReposInCache lines 330-335: a regeneration stores the marker
storePopularReposInCache ==
    rf' = [rf EXCEPT !.marker = <<rf.clock>>]

\* the marker reaches its expirationTtl
markerExpire ==
    /\ rf.marker # <<>>
    /\ rf' = [rf EXCEPT !.marker = <<>>]

\* shouldRefreshCache lines 348-374: the clock is read; before the cutoff the
\* answer is false without a look at the marker
shouldRefreshCache ==
    /\ rf.pc \in {"idle", "returned"}
    /\ rf' = [rf EXCEPT !.now = rf.clock, !.seen = <<>>,
                        !.pc = IF isTimeToRefresh(rf.clock) THEN "get" ELSE "returned",
                        !.result = FALSE]

\* hasRefreshedToday lines 406-448 and shouldRefreshCache lines 377-387: the
\* marker read completes (or throws), the clock is read again
hasRefreshedToday(getThrows) ==
    /\ rf.pc = "get"
    /\ LET lastRefreshTimestamp == IF getThrows THEN <<>> ELSE rf.marker IN
       rf' = [rf EXCEPT !.pc = "returned", !.seen = lastRefreshTimestamp,
                        !.result = isTimeToRefresh(rf.now)
                                   /\ ~hasRefreshed(lastRefreshTimestamp, rf.clock)]

\* the variables the Refresh Scheduler leaves alone
refreshRest == <<dayVars, windowVars, enrichVars, req, fe, pop, repoCache, gen, llm, calls>>

RefreshNext ==
    \/ \E t \in Instants : tick(t) /\ UNCHANGED refreshRest
    \/ storePopularReposInCache /\ UNCHANGED refreshRest
    \/ markerExpire /\ UNCHANGED refreshRest
    \/ shouldRefreshCache /\ UNCHANGED refreshRest
    \/ \E getThrows \in BOOLEAN : hasRefreshedToday(getThrows) /\ UNCHANGED refreshRest

SpecRefresh == AtRest /\ [][RefreshNext]_vars

\* the marker the check read shows a refresh on now's UTC day at or after
\* the cutoff
RefreshedOnDayOf(now) ==
    /\ rf.seen # <<>>
    /\ rf.seen[1].d = now.d
    /\ ~Before(rf.seen[1], Time(now.d, apiRefreshHour, apiRefreshBuffer))

\* C7: shouldRefreshCache evaluated at time now returns true exactly when now
\* is at or after the cutoff of now's UTC day and no marker read shows a
\* refresh on now's UTC day at or after that cutoff.
C7_TrueIffDueAndNotRefreshed ==
    rf.pc = "returned" =>
        (rf.result <=>
            /\ ~Before(rf.now, Time(rf.now.d, apiRefreshHour, apiRefreshBuffer))
            /\ ~RefreshedOnDayOf(rf.now))

\* fetchPopularRepositories lines 27-36 for caller p, over
\* getPopularReposFromCache and shouldRefreshCache with readable cache: the
\* stored list is used unless the refresh time is reached and the marker
\* shows no refresh today, or nothing is stored (the list and the marker are
\* written together and live equally long)
getPopularReposFromCacheBy(p) ==
    /\ gen.pc[p] = "idle"
    /\ LET stale == isTimeToRefresh(rf.clock) /\ ~hasRefreshed(rf.marker, rf.clock) IN
       gen' = [gen EXCEPT !.pc[p] = IF stale \/ rf.marker = <<>> THEN "source" ELSE "idle"]
    /\ UNCHANGED rf

\* fetchPopularRepositories lines 43-54 for caller p: the request to the
\* source; a failure ends the call
fetchPopularRepositoriesBy(p, ok) ==
    /\ gen.pc[p] = "source"
    /\ gen' = [gen EXCEPT !.pc[p] = IF ok THEN "store" ELSE "idle"]
    /\ UNCHANGED rf

\* storePopularReposInCache for caller p, both writes succeeding: the list
\* is regenerated and the marker carries the time of the write
storePopularReposInCacheBy(p) ==
    /\ gen.pc[p] = "store"
    /\ rf' = [rf EXCEPT !.marker = <<rf.clock>>]
    /\ gen' = [gen EXCEPT !.pc[p] = "idle",
                          !.forced[rf.clock.d] =
                              IF isTimeToRefresh(rf.clock) THEN @ + 1 ELSE @]

\* the variables the concurrent popular-list requests leave alone
regenerateRest == <<dayVars, windowVars, enrichVars, req, fe, pop, repoCache, calls, llm>>

RegenerateNext ==
    \/ \E t \in Instants : tick(t) /\ UNCHANGED <<regenerateRest, gen>>
    \/ \E p \in 1..MaxCallers : getPopularReposFromCacheBy(p) /\ UNCHANGED regenerateRest
    \/ \E p \in 1..MaxCallers, ok \in BOOLEAN :
          fetchPopularRepositoriesBy(p, ok) /\ UNCHANGED regenerateRest
    \/ \E p \in 1..MaxCallers : storePopularReposInCacheBy(p) /\ UNCHANGED regenerateRest

SpecRegenerate == AtRest /\ [][RegenerateNext]_vars

\* C26 as stated: whatever the interleaving of the popular-list requests of
\* one UTC day, with readable cache and successful writes, the list is
\* regenerated at most once at or after the day's cutoff.
C26_RefreshedAtMostOncePerDay ==
    \A d \in 1..MaxDay : gen.forced[d] <= 1

-----------------------------------------------------------------------------
(* Popular-repositories worker: the fetch handler of main/index.ts over     *)
(* fetchPopularRepositories and enhanceRepositoriesWithAnalysis.  Whether   *)
(* the refresh time has been reached (shouldRefreshCache) depends on the    *)
(* clock and is an input of the cache lookup.                               *)

defaultRepoLimit == 15

\* the lists the popular-repositories source can send
PopularLists ==
    {l \in UNION {[1..n -> RepoIds] : n \in 0..MaxEnriched} :
        \A i, j \in 1..Len(l) : l[i] = l[j] => i = j}

\* the outcomes of fetch(POPULAR_REPOS_API)
PopularResponses ==
    {[kind |-> "ok", repositories |-> l] : l \in PopularLists}
    \cup {[kind |-> k, repositories |-> <<>>] : k \in {"http_error", "network_error"}}

\* DEV_CONFIG.popularReposCacheKey; the refresh marker is stored under
\* `${cacheKey}-last-refresh`
popularReposCacheKey == <<"popular-repositories-list">>

\* `repo:${repo.full_name}:${repo.updated_at}`
analysisCacheKey(repo) == <<"repo", repo, "updated_at">>

\* the handler's catch block, lines 106-117: status 500 with the error message
respondError(p, message) ==
    [p EXCEPT !.pc = "responded", !.status = 500, !.error = message]

\* mutant of afterRepositories: the API key is not checked
afterRepositories_KeyNotChecked(p, repositories) ==
    [p EXCEPT !.pc = "enhance", !.repositories = repositories,
              !.limitedRepos = Slice0(repositories, p.limit.n)]

\* handler lines 72-79: limit the list, then require an API key from the
\* environment or the development configuration
afterRepositories(p, repositories) ==
    LET q == [p EXCEPT !.repositories = repositories,
                       !.limitedRepos = Slice0(repositories, p.limit.n)]
    IN  IF ~(p.envKey \/ p.devKey)
        THEN respondError(q, "LLM API key is not configured")
        ELSE [q EXCEPT !.pc = "enhance"]

\* handler lines 41-66: the request and the validation of its limit (absent,
\* a number, or not a number)
popularFetch(limitParam, envKey, devKey) ==
    /\ pop.pc \in {"idle", "responded"}
    /\ LET limit == IF limitParam # <<>> THEN parseInt(limitParam)
                    ELSE Number(defaultRepoLimit)
           p == [PopularIdle EXCEPT !.limit = limit, !.envKey = envKey, !.devKey = devKey]
       IN  IF limit.t = "NaN" \/ limit.n < 1
           THEN pop' = [p EXCEPT !.pc = "responded", !.status = 400,
                                 !.error = "Invalid limit parameter"]
           ELSE pop' = [p EXCEPT !.pc = "cache"]
    /\ UNCHANGED repoCache

\* fetchPopularRepositories lines 27-36 over getPopularReposFromCache: null
\* when the refresh time is reached, the read throws or nothing is stored
getPopularReposFromCache(refresh, readThrows) ==
    /\ pop.pc = "cache"
    /\ IF ~refresh /\ ~readThrows /\ popularReposCacheKey \in DOMAIN repoCache
       THEN pop' = afterRepositories(pop, JSONparse(repoCache[popularReposCacheKey]))
       ELSE pop' = [pop EXCEPT !.pc = "source"]
    /\ UNCHANGED repoCache

\* fetchPopularRepositories lines 43-54 and 65-68: the request to the source;
\* a failure is rethrown and reaches the handler's catch block
fetchPopularRepositoriesFetch(resp) ==
    /\ pop.pc = "source"
    /\ IF resp.kind = "ok"
       THEN pop' = [pop EXCEPT !.pc = "store", !.repositories = resp.repositories]
       ELSE pop' = [respondError(pop, "Failed to fetch popular repositories")
                       EXCEPT !.sourceFailed = TRUE]
    /\ UNCHANGED repoCache

\* fetchPopularRepositories lines 60-64 over storePopularReposInCache: the
\* list and then the refresh marker are written; a write that throws ends the
\* storing and is absorbed
fetchPopularRepositoriesStore(written) ==
    /\ pop.pc = "store"
    /\ LET listed == KvPut(repoCache, popularReposCacheKey, JSONstringify(pop.repositories))
       IN  repoCache' = CASE written = 0 -> repoCache
                          [] written = 1 -> listed
                          [] OTHER -> KvPut(listed, popularReposCacheKey \o <<"-last-refresh">>,
                                            JSONstringify("now"))
    /\ pop' = afterRepositories(pop, pop.repositories)

\* enhanceRepositoriesWithAnalysis lines 96-137 for one repository: the
\* analysis it returns.  io tells what the services do for the repository:
\* whether the cache read throws, whether the LLM call yields an analysis or
\* the fallback, whether the cache write throws.
analysisOf(store, repo, io) ==
    IF ~io.readThrows /\ analysisCacheKey(repo) \in DOMAIN store
    THEN JSONparse(store[analysisCacheKey(repo)])
    ELSE io.llm

\* the repositories of a list whose analysis is generated by the LLM
generated(store, repos, ios) ==
    {i \in 1..Len(repos) :
        ~(~ios[repos[i]].readThrows /\ analysisCacheKey(repos[i]) \in DOMAIN store)}

\* the store after the analyses generated for a list have been written
RECURSIVE storeAnalyses(_, _, _, _)
storeAnalyses(store, repos, ios, i) ==
    IF i > Len(repos) THEN store
    ELSE storeAnalyses(
            IF i \in generated(store, repos, ios) /\ ~ios[repos[i]].writeThrows
            THEN KvPut(store, analysisCacheKey(repos[i]), JSONstringify(ios[repos[i]].llm))
            ELSE store,
            repos, ios, i + 1)

\* handler lines 88-105: the analyses of the limited list and the response
enhanceRepositoriesWithAnalysis(ios) ==
    /\ pop.pc = "enhance"
    /\ pop' = [pop EXCEPT !.pc = "responded", !.status = 200,
                  !.llmCalls = Cardinality(generated(repoCache, pop.limitedRepos, ios)),
                  !.out = [i \in 1..Len(pop.limitedRepos) |->
                             <<pop.limitedRepos[i],
                               analysisOf(repoCache, pop.limitedRepos[i],
                                          ios[pop.limitedRepos[i]])>>]]
    /\ repoCache' = storeAnalyses(repoCache, pop.limitedRepos, ios, 1)

\* an entry of REPO_CACHE reaches its expirationTtl between two requests
repoCacheExpire(key) ==
    /\ pop.pc \in {"idle", "responded"}
    /\ repoCache' = KvDelete(repoCache, key)
    /\ UNCHANGED pop

\* the variables the popular-repositories worker leaves alone
popularRest == <<dayVars, windowVars, enrichVars, req, fe, rf, gen, llm, calls>>

PopularNext ==
    \/ \E p \in LimitParams \cup {<<120>>}, envKey, devKey \in BOOLEAN :
         popularFetch(p, envKey, devKey) /\ UNCHANGED popularRest
    \/ \E refresh, readThrows \in BOOLEAN :
         getPopularReposFromCache(refresh, readThrows) /\ UNCHANGED popularRest
    \/ \E resp \in PopularResponses :
         fetchPopularRepositoriesFetch(resp) /\ UNCHANGED popularRest
    \/ \E written \in 0..2 : fetchPopularRepositoriesStore(written) /\ UNCHANGED popularRest
    \/ \E ios \in [RepoIds -> [readThrows : BOOLEAN, llm : {"analysis", "fallback"},
                                writeThrows : BOOLEAN]] :
         enhanceRepositoriesWithAnalysis(ios) /\ UNCHANGED popularRest
    \/ \E key \in DOMAIN repoCache : repoCacheExpire(key) /\ UNCHANGED popularRest

SpecPopular == AtRest /\ [][PopularNext]_vars

\* C15 as stated, for the popular-repositories source: a request during which
\* the source was unavailable (network error or non-2xx) is not answered with
\* a 5xx.
C15_UpstreamFailureNever5xx ==
    (pop.pc = "responded" /\ pop.sourceFailed) => pop.status < 500

\* a request was answered while neither the environment
\* nor the development configuration held an API key
AnsweredWithoutKey ==
    /\ pop.pc = "responded"
    /\ ~pop.envKey /\ ~pop.devKey

C22_StoredListServedWhenSourceFails ==
    (/\ pop.pc = "responded"
     /\ pop.sourceFailed
     /\ pop.envKey \/ pop.devKey
     /\ popularReposCacheKey \in DOMAIN repoCache) =>
        /\ pop.status = 200
        /\ pop.repositories = JSONparse(repoCache[popularReposCacheKey])

\* `${cacheKey}-last-refresh`, the key of the refresh marker
lastRefreshKey == popularReposCacheKey \o <<"-last-refresh">>

\* C35 as stated: the refresh marker is written exactly when the list is
\* regenerated: a step that puts the list into the store puts the marker
\* there too, and no step other than the storing of a regenerated list
\* creates or changes the marker.
C35_MarkerWrittenWithList ==
    [][/\ (popularReposCacheKey \notin DOMAIN repoCache
           /\ popularReposCacheKey \in DOMAIN repoCache')
          => lastRefreshKey \in DOMAIN repoCache'
       /\ (lastRefreshKey \in DOMAIN repoCache' /\ pop.pc # "store")
          => (/\ lastRefreshKey \in DOMAIN repoCache
              /\ repoCache'[lastRefreshKey] = repoCache[lastRefreshKey])]_vars

\* C39 as stated: the fallback analysis that stands for a failed LLM call is
\* never written to the analysis cache: no entry under a repo:<name>:<updated_at>
\* key holds it, so that a later request for the repository calls the LLM
\* again.
C39_FallbackNeverCached ==
    \A repo \in RepoIds :
        analysisCacheKey(repo) \in DOMAIN repoCache
            => JSONparse(repoCache[analysisCacheKey(repo)]) # "fallback"

-----------------------------------------------------------------------------
(* callDeepseekAPI: the retry loop around the request to the LLM service.   *)

\* what one attempt can meet: a 200 answer with a completion, a non-2xx
\* status, a network failure, a 200 answer without choices
LlmOutcomes ==
    {[kind |-> "ok", content |-> c] : c \in {"json", "prose"}}
    \cup {[kind |-> k, content |-> ""] : k \in {"http_error", "network_error", "no_choices"}}

\* lines 96-103: the call, before its first attempt
callDeepseekAPI ==
    /\ llm.pc \in {"idle", "returned", "thrown"}
    /\ llm' = [LlmIdle EXCEPT !.pc = "fetch"]

\* lines 106-145: one attempt settles; its content is returned, or its error
\* is counted and, past maxRetries, rethrown
attempt(outcome) ==
    /\ llm.pc = "fetch"
    /\ llm' = IF outcome.kind = "ok"
              THEN [llm EXCEPT !.pc = "returned", !.out = outcome.content]
              ELSE [llm EXCEPT !.retries = @ + 1,
                               !.errors = Append(@, outcome.kind),
                               !.thrown = IF llm.retries + 1 > retry.maxRetries
                                          THEN outcome.kind ELSE "",
                               !.pc = IF llm.retries + 1 > retry.maxRetries
                                      THEN "thrown" ELSE "wait"]

\* mutant of backoff: the delay stays as it is
backoff_SameDelay ==
    /\ llm.pc = "wait"
    /\ llm' = [llm EXCEPT !.pc = "fetch", !.waited = Append(@, llm.delay)]

\* lines 148-152: the timer of the delay fires, the delay grows for the next
\* retry
backoff ==
    /\ llm.pc = "wait"
    /\ llm' = [llm EXCEPT !.pc = "fetch", !.waited = Append(@, llm.delay),
                          !.delay = @ * retry.backoffFactor]

llmRest == <<dayVars, windowVars, enrichVars, req, fe, rf, pop, repoCache, gen, calls>>

LlmNext ==
    \/ callDeepseekAPI /\ UNCHANGED llmRest
    \/ \E outcome \in LlmOutcomes : attempt(outcome) /\ UNCHANGED llmRest
    \/ backoff /\ UNCHANGED llmRest

SpecLlm == AtRest /\ [][LlmNext]_vars

\* every request to the LLM service settles and every timer fires
SpecLlmLive ==
    /\ SpecLlm
    /\ WF_vars(\E outcome \in LlmOutcomes : attempt(outcome) /\ UNCHANGED llmRest)
    /\ WF_vars(backoff /\ UNCHANGED llmRest)

\* initialDelayMs * backoffFactor^(k - 1)
RECURSIVE delayBefore(_)
delayBefore(k) ==
    IF k = 1 THEN retry.initialDelayMs ELSE delayBefore(k - 1) * retry.backoffFactor

\* the attempts made so far by the call: the failed ones and the one that
\* succeeded or is under way
Attempts == Len(llm.errors) + (IF llm.pc \in {"fetch", "returned"} THEN 1 ELSE 0)

\* C38: callDeepseekAPI always terminates.  It makes at most maxRetries + 1
\* = 4 attempts and waits initialDelayMs * backoffFactor^(k - 1) before its
\* k-th retry; it returns the content of the first successful answer and
\* makes no attempt after it; it rethrows the error of its last attempt
\* once the failed attempts exceed maxRetries.
C38_TerminatesWithinRetries ==
    /\ [](/\ Attempts <= retry.maxRetries + 1
          /\ \A k \in 1..Len(llm.waited) : llm.waited[k] = delayBefore(k)
          /\ llm.pc = "fetch" => Len(llm.waited) = Len(llm.errors)
          /\ llm.pc = "returned" =>
                /\ llm.out \in {"json", "prose"}
                /\ Len(llm.waited) = Len(llm.errors)
          /\ llm.pc = "thrown" =>
                /\ Len(llm.errors) = retry.maxRetries + 1
                /\ llm.waited = <<1000, 2000, 4000>>
                /\ llm.thrown = llm.errors[Len(llm.errors)])
    /\ (llm.pc \in {"fetch", "wait"}) ~> (llm.pc \in {"returned", "thrown"})

\* a call whose first three attempts failed in different ways returned the
\* content of the fourth after waiting 1000, 2000 and 4000 ms
C38_Witness ==
    /\ llm.pc = "returned"
    /\ llm.errors = <<"http_error", "network_error", "no_choices">>
    /\ llm.waited = <<1000, 2000, 4000>>
    /\ llm.out = "json"

=============================================================================
